---- MODULE Spec2Model ----
(***************************************************************************)
(* A model of the object and multipart storage engine of the S3 provider   *)
(* (localstack/services/s3/provider.py): one bucket, its key store, the    *)
(* content store with its per-composite-key writer guard, the tag table    *)
(* and the multipart uploads, driven by request workers that run           *)
(* put_object, delete_object, put_bucket_versioning and the multipart      *)
(* operations, the listings, get_object and head_object, and the bucket    *)
(* level operations: create_bucket and delete_bucket over the per-account  *)
(* and global bucket maps, lifecycle rules with the expiration cache,      *)
(* notifications and object lock.  A handler that blocks (on the writer    *)
(* guard, on stream I/O) is cut into steps at those points, a handler      *)
(* that races on shared maps is cut at its accesses to them; every other   *)
(* handler is one step.                                                    *)
(***************************************************************************)
EXTENDS Integers, Sequences, FiniteSets, TLC

\* ------------------------------------------------------------------ bounds
MaxVid == 2          \* fresh version ids are 1..MaxVid
MaxUploads == 2      \* upload ids are 1..MaxUploads
MaxClock == 1        \* the clock (seconds) runs 0..MaxClock
MaxListLen == 2      \* longest parts list of a complete_multipart_upload
MaxPart == 2         \* part numbers uploaded are 1..MaxPart
MaxCondUploads == 1  \* uploads created under SpecCond
MaxListKeys == 3     \* max_keys and max_uploads of a listing request are 0..MaxListKeys
MaxVersions == 3     \* versions written to a bucket whose versions are listed

Workers == {1, 2}
Keys == {"a"}
RaceKey == "a"
NoWorker == 0

\* --------------------------------------------------- values and encodings
\* Strings that the code inspects are sequences of character codes.
QUOTE == 34
STAR == 42
\* version ids: None, the literal "null", and fresh tokens 1, 2, ...
NoVid == -1
NullVid == 0
NoTime == -1
NoUpload == 0
MaxPartNumber == 10000

Vids == NullVid..MaxVid
Bodies == {<<1>>, <<2>>}
NoBytes == <<-1>>
NoTag == 0
Taggings == {NoTag, 1}
PartNums == 1..MaxPart
ReqPartNums == {0, MaxPartNumber + 1} \cup PartNums

\* hex MD5 of a byte string: an injective code of the bytes
MD5Hex(bytes) == <<100>> \o [i \in 1..Len(bytes) |-> 100 + bytes[i]]
\* hex etag -> base64 Content-MD5 (a bijective re-encoding)
etag_to_base_64_content_md5(etag) == [i \in 1..Len(etag) |-> etag[i] + 1000]
\* base64 checksum of a byte string in the declared algorithm
Checksum(bytes) == <<200>> \o [i \in 1..Len(bytes) |-> 200 + bytes[i]]
InvalidChecksum == <<299>>
validate_checksum_value(value) == value # <<>> /\ Head(value) = 200
Quoted(s) == <<QUOTE>> \o s \o <<QUOTE>>

RECURSIVE LStrip(_)
LStrip(s) == IF s # <<>> /\ Head(s) = QUOTE THEN LStrip(Tail(s)) ELSE s
RECURSIVE RStrip(_)
RStrip(s) ==
    IF s # <<>> /\ s[Len(s)] = QUOTE THEN RStrip(SubSeq(s, 1, Len(s) - 1)) ELSE s
\* etag.strip('"')
Strip(s) == RStrip(LStrip(s))

IfMatchValues == {<<>>, <<STAR>>, MD5Hex(<<2>>), Quoted(MD5Hex(<<1>>))}
IfNoneMatchValues == {<<>>, <<STAR>>, Quoted(MD5Hex(<<1>>))}
ContentMD5Values == {<<>>} \cup {etag_to_base_64_content_md5(MD5Hex(b)) : b \in Bodies}
ChecksumInputs ==
    {[algorithm |-> FALSE, value |-> <<>>]}
    \cup {[algorithm |-> TRUE, value |-> v] :
            v \in {<<>>, InvalidChecksum} \cup {Checksum(b) : b \in Bodies}}

\* ------------------------------------------------------------------- state
VARIABLES
    versioning_status,  \* s3_bucket.versioning_status: "unset", "Enabled", "Suspended"
    objects,            \* s3_bucket.objects: key -> versions, newest first
    tags,               \* store.TAGS.tags, by composite key
    multiparts,         \* s3_bucket.multiparts: the upload ids registered
    mp,                 \* every S3Multipart created so far, by upload id
    storage,            \* content store: composite key -> bytes
    wlock,              \* content store: composite key -> worker holding the writer guard
    staged,             \* content store: upload id -> part number -> staged bytes
    nextVid,            \* next fresh version id
    clock,              \* wall clock, in seconds
    pc,                 \* worker -> position in its handler
    op,                 \* worker -> the operation it runs or ran last
    result,             \* worker -> outcome of that operation
    req,                \* worker -> the request and the handler's locals
    listing,            \* a client paginating a listing: its request and the pages so far
    buckets,            \* account -> the region of its bucket of the one name, or NoBucket
    global_bucket_map,  \* the account the global bucket map names for the one name, or NoAccount
    lifecycle_rules,    \* s3_bucket.lifecycle_rules: NoRules or the rule in force
    expiration_cache,   \* self._expiration_cache[bucket]: key -> cached Expiration header
    notification_configuration,  \* s3_bucket.notification_configuration is set
    notified,           \* the events the latest notifying invocation gave the dispatcher
    response,           \* worker -> what its last get_object, head_object or put_object returned
    object_lock_enabled, \* s3_bucket.object_lock_enabled
    bucket_tags         \* account -> store.TAGS.tags[bucket_arn] of its store: a TagSet or NoTag

bucketVars == <<versioning_status, objects, tags, multiparts, mp>>
storeVars == <<storage, wlock, staged>>
genVars == <<nextVid, clock>>
workerVars == <<pc, op, result, req>>
\* the bucket maps, the lifecycle, notification and object-lock state, the responses
configVars == <<buckets, global_bucket_map, lifecycle_rules, notification_configuration,
                object_lock_enabled, bucket_tags>>
extVars == <<configVars, expiration_cache, notified, response>>
vars == <<versioning_status, objects, tags, multiparts, mp, storage, wlock, staged,
          nextVid, clock, pc, op, result, req, listing, buckets, global_bucket_map,
          lifecycle_rules, expiration_cache, notification_configuration, notified,
          response, object_lock_enabled, bucket_tags>>

\* no listing is being paginated
NoListing == [api |-> "none"]

\* Accounts: each worker authenticates as the account of its own number
Accounts == {1, 2}
NoAccount == 0
Regions == {"us-east-1", "eu-west-1"}
NoBucket == "none"
\* lifecycle configurations: none, or one unfiltered Expiration rule of that many days
NoRules == 0
NoHeader == <<>>
NoNotification == [n |-> 0, by |-> NoWorker, op |-> "none", events |-> <<>>]
NoResponse ==
    [version_id |-> NoVid, delete_marker |-> FALSE, etag |-> <<>>, body |-> NoBytes,
     expiration |-> NoHeader, deleted |-> <<>>, errors |-> <<>>,
     page |-> [parts |-> <<>>, is_truncated |-> FALSE, next_part_number_marker |-> 0],
     tag_set |-> NoTag]

\* a bucket of account 1 in us-east-1, as create_bucket leaves it
ExtInit ==
    /\ buckets = [a \in Accounts |-> IF a = 1 THEN "us-east-1" ELSE NoBucket]
    /\ global_bucket_map = 1
    /\ lifecycle_rules = NoRules
    /\ expiration_cache = [k \in Keys |-> NoHeader]
    /\ notification_configuration = FALSE
    /\ notified = NoNotification
    /\ response = [w \in Workers |-> NoResponse]
    /\ object_lock_enabled = FALSE
    /\ bucket_tags = [a \in Accounts |-> NoTag]

\* composite key of the content store and of the tag table: bucket/key/(version_id or "null")
CompositeKey(key, version_id) ==
    <<key, IF version_id = NoVid THEN NullVid ELSE version_id>>
get_unique_key_id(key, version_id) == CompositeKey(key, version_id)

S3Object(version_id, etag, last_modified) ==
    [version_id |-> version_id, is_delete_marker |-> FALSE, etag |-> etag,
     last_modified |-> last_modified, lock_legal_status |-> FALSE,
     lock_mode |-> "none", lock_until |-> NoTime]
S3DeleteMarker(version_id, last_modified) ==
    [version_id |-> version_id, is_delete_marker |-> TRUE, etag |-> <<>>,
     last_modified |-> last_modified, lock_legal_status |-> FALSE,
     lock_mode |-> "none", lock_until |-> NoTime]
\* no record resolved yet
NoObject == S3Object(NoVid, <<>>, NoTime)

NoReq ==
    [key |-> RaceKey, version_id |-> NoVid, if_match |-> <<>>, if_none_match |-> <<>>,
     last_modified |-> NoTime, tagging |-> NoTag, upload_id |-> NoUpload,
     parts |-> <<>>, part_number |-> 0, s3_object |-> NoObject, expiration |-> NoHeader,
     region |-> "us-east-1", owner |-> NoAccount]

\* ------------------------------------------------------------- key store
\* s3_bucket.objects.get(key): the current version, if any
HasCurrent(store, key) == store[key] # <<>>
Current(store, key) == Head(store[key])
\* s3_bucket.objects.get(key, version_id)
HasVersion(store, key, version_id) ==
    \E i \in 1..Len(store[key]) : store[key][i].version_id = version_id
GetVersion(store, key, version_id) ==
    store[key][CHOOSE i \in 1..Len(store[key]) : store[key][i].version_id = version_id]
\* a faulty variant: the named version is removed together with every newer one
RemoveUpToVersion(versions, version_id) ==
    IF \A i \in 1..Len(versions) : versions[i].version_id # version_id THEN versions
    ELSE SubSeq(versions,
                1 + CHOOSE i \in 1..Len(versions) : versions[i].version_id = version_id,
                Len(versions))

RemoveVersion(versions, version_id) ==
    SelectSeq(versions, LAMBDA v : v.version_id # version_id)
\* a faulty variant: the versioned store keeps one version per key
KeyStoreSetFlat(store, status, key, s3_object) == [store EXCEPT ![key] = <<s3_object>>]

\* a faulty variant: the set is lost
KeyStoreSetDropped(store, status, key, s3_object) == store

\* s3_bucket.objects.set(key, s3_object): a flat map while versioning is unset,
\* otherwise the new version becomes the newest, replacing a version of the same id
KeyStoreSet(store, status, key, s3_object) ==
    [store EXCEPT ![key] =
        IF status = "unset" THEN <<s3_object>>
        ELSE <<s3_object>> \o RemoveVersion(@, s3_object.version_id)]
\* a faulty variant: the versioned store starts empty
from_key_store_empty(store) == [k \in Keys |-> <<>>]

\* VersionedKeyStore.from_key_store: existing objects migrate with version id "null"
from_key_store(store) ==
    [k \in Keys |-> [i \in 1..Len(store[k]) |-> [store[k][i] EXCEPT !.version_id = NullVid]]]

\* a faulty variant: an Enabled bucket hands out "null" like a suspended one
generate_version_id_never_fresh(status) ==
    IF status = "unset" THEN NoVid ELSE NullVid

generate_version_id(status) ==
    IF status = "unset" THEN NoVid
    ELSE IF status = "Enabled" THEN nextVid
    ELSE NullVid

\* a faulty variant: a delete marker counts as an existing object
object_exists_ignoring_delete_markers(store, key) == HasCurrent(store, key)

object_exists_for_precondition_write(store, key) ==
    HasCurrent(store, key) /\ ~Current(store, key).is_delete_marker

\* a faulty variant: the header value is compared without stripping its quotes
verify_object_equality_unstripped(store, key, etag, initiated) ==
    IF ~HasCurrent(store, key) \/ Current(store, key).is_delete_marker THEN "NoSuchKey"
    ELSE IF Current(store, key).etag # etag THEN "PreconditionFailed"
    ELSE IF initiated # NoTime /\ initiated < Current(store, key).last_modified
         THEN "ConditionalRequestConflict"
    ELSE "ok"

verify_object_equality_precondition_write(store, key, etag, initiated) ==
    IF ~HasCurrent(store, key) \/ Current(store, key).is_delete_marker THEN "NoSuchKey"
    ELSE IF Current(store, key).etag # Strip(etag) THEN "PreconditionFailed"
    ELSE IF initiated # NoTime /\ initiated < Current(store, key).last_modified
         THEN "ConditionalRequestConflict"
    ELSE "ok"

\* a faulty variant: If-Match: * is let through
UnsupportedConditionalButStar(if_match, if_none_match) ==
    IF if_none_match # <<>> /\ if_match # <<>> THEN TRUE
    ELSE if_none_match # <<>> /\ if_none_match # <<STAR>>

\* the unsupported conditional headers of put_object
UnsupportedConditional(if_match, if_none_match) ==
    IF if_none_match # <<>> /\ if_match # <<>> THEN TRUE
    ELSE (if_none_match # <<>> /\ if_none_match # <<STAR>>)
         \/ (if_match # <<>> /\ if_match = <<STAR>>)

\* ---------------------------------------------------------- content store
StorageWrite(st, ck, bytes) == [st EXCEPT ![ck] = bytes]
StorageRemove(st, ck) == [st EXCEPT ![ck] = NoBytes]

\* the handler returns or raises: the worker is free again and its locals are gone
Finish(w, outcome) ==
    /\ pc' = [pc EXCEPT ![w] = "idle"]
    /\ result' = [result EXCEPT ![w] = outcome]
    /\ req' = [req EXCEPT ![w] = NoReq]

\* _get_cross_account_bucket: the account whose store holds the bucket the caller
\* reaches, its own first and then the one the global bucket map names; NoAccount
\* stands for NoSuchBucket
get_cross_account_bucket(account) ==
    IF buckets[account] # NoBucket THEN account
    ELSE IF global_bucket_map = NoAccount THEN NoAccount
    ELSE IF buckets[global_bucket_map] = NoBucket THEN NoAccount
    ELSE global_bucket_map

\* _notify: the events go to the dispatcher when the bucket has a notification
\* configuration
Event(name, key, version_id) == [name |-> name, key |-> key, version_id |-> version_id]
notify(w, operation, events) ==
    notified' = IF notification_configuration /\ events # <<>>
                THEN [n |-> 1 - notified.n, by |-> w, op |-> operation, events |-> events]
                ELSE notified

\* serialize_expiration_header: the rule and the expiry date it gives the object
serialize_expiration_header(rule, last_modified) == <<rule, last_modified + rule>>

\* _get_expiration_header: the cached header of the key if there is one, else the
\* header the rules passed in give the object
get_expiration_header(rules, key, s3_object) ==
    IF expiration_cache[key] # NoHeader THEN expiration_cache[key]
    ELSE serialize_expiration_header(rules, s3_object.last_modified)

\* -------------------------------------------------------------- put_object
\* validation, version id and the S3Object record, up to the writer guard
put_object_start(w, key, if_match, if_none_match, tagging) ==
    /\ pc[w] = "idle"
    /\ op' = [op EXCEPT ![w] = "put_object"]
    /\ response' = [response EXCEPT ![w] = NoResponse]
    /\ IF get_cross_account_bucket(w) = NoAccount
       THEN /\ Finish(w, "NoSuchBucket")
            /\ UNCHANGED nextVid
       ELSE IF UnsupportedConditional(if_match, if_none_match)
       THEN /\ Finish(w, "NotImplemented")
            /\ UNCHANGED nextVid
       ELSE /\ versioning_status = "Enabled" => nextVid <= MaxVid
            /\ req' = [req EXCEPT ![w] =
                 [NoReq EXCEPT !.key = key, !.if_match = if_match,
                               !.if_none_match = if_none_match, !.tagging = tagging,
                               !.version_id = generate_version_id(versioning_status),
                               !.last_modified = clock]]
            /\ nextVid' = IF versioning_status = "Enabled" THEN nextVid + 1 ELSE nextVid
            /\ pc' = [pc EXCEPT ![w] = "put_check"]
            /\ result' = [result EXCEPT ![w] = "pending"]
    /\ UNCHANGED <<bucketVars, storeVars, clock, listing, configVars, expiration_cache,
                   notified>>

\* the precondition the handler evaluates once it holds the writer guard
PutPrecondition(store, r) ==
    IF r.if_none_match # <<>> /\ object_exists_for_precondition_write(store, r.key)
    THEN "PreconditionFailed"
    ELSE IF r.if_match # <<>>
    THEN verify_object_equality_precondition_write(store, r.key, r.if_match, NoTime)
    ELSE "ok"

\* open(mode="w") acquires the writer guard of the composite key; the
\* conditional checks run under it
put_object_check(w) ==
    LET r == req[w]
        ck == CompositeKey(r.key, r.version_id)
        outcome == PutPrecondition(objects, r)
    IN /\ pc[w] = "put_check"
       /\ wlock[ck] = NoWorker
       /\ IF outcome # "ok"
          THEN Finish(w, outcome) /\ UNCHANGED wlock
          ELSE /\ wlock' = [wlock EXCEPT ![ck] = w]
               /\ pc' = [pc EXCEPT ![w] = "put_write"]
               /\ UNCHANGED <<result, req>>
       /\ UNCHANGED <<bucketVars, storage, staged, genVars, op, listing, extVars>>

\* the outcome of the checksum and Content-MD5 validation after the write
PutIntegrity(body, content_md5, checksum) ==
    IF checksum.algorithm /\ checksum.value # <<>>
       /\ ~validate_checksum_value(checksum.value) THEN "InvalidRequest"
    ELSE IF checksum.algorithm /\ checksum.value # <<>>
       /\ checksum.value # Checksum(body) THEN "BadDigest"
    ELSE IF content_md5 # <<>>
       /\ etag_to_base_64_content_md5(MD5Hex(body)) # content_md5 THEN "BadDigest"
    ELSE "ok"

\* write the body, validate it, commit the record, release the guard
put_object_write(w, body, content_md5, checksum) ==
    LET r == req[w]
        ck == CompositeKey(r.key, r.version_id)
        outcome == PutIntegrity(body, content_md5, checksum)
        written == StorageWrite(storage, ck, body)
    IN /\ pc[w] = "put_write"
       /\ wlock' = [wlock EXCEPT ![ck] = NoWorker]
       /\ IF outcome # "ok"
          THEN /\ storage' = StorageRemove(written, ck)
               /\ Finish(w, outcome)
               /\ UNCHANGED objects
          ELSE /\ storage' = written
               /\ objects' = KeyStoreSet(objects, versioning_status, r.key,
                                S3Object(r.version_id, MD5Hex(body), r.last_modified))
               /\ pc' = [pc EXCEPT ![w] = "put_tags"]
               /\ UNCHANGED <<result, req>>
       /\ UNCHANGED <<versioning_status, tags, multiparts, mp, staged, genVars, op, listing,
                      extVars>>

\* after the guard: replace the tag entry of the version, add the Expiration header
\* when the bucket has lifecycle rules, notify
put_object_tags(w) ==
    LET r == req[w]
        s3_object == S3Object(r.version_id, <<>>, r.last_modified)
        expiration == get_expiration_header(lifecycle_rules, r.key, s3_object)
    IN /\ pc[w] = "put_tags"
       /\ tags' = [tags EXCEPT ![get_unique_key_id(r.key, r.version_id)] = r.tagging]
       /\ IF lifecycle_rules # NoRules
          THEN /\ expiration_cache' = [expiration_cache EXCEPT ![r.key] = expiration]
               /\ response' = [response EXCEPT ![w] =
                                 [NoResponse EXCEPT !.expiration = expiration]]
          ELSE UNCHANGED <<expiration_cache, response>>
       /\ notify(w, "put_object", <<Event("ObjectCreated:Put", r.key, r.version_id)>>)
       /\ Finish(w, "ok")
       /\ UNCHANGED <<versioning_status, objects, multiparts, mp, storeVars, genVars, op,
                      listing, configVars>>

\* ----------------------------------------------------------- delete_object
\* a faulty variant: no version counts as locked
is_locked_never(s3_object) == FALSE

\* S3Object.is_locked: a version under a legal hold is locked, whatever the bypass header
is_locked(s3_object) == s3_object.lock_legal_status

delete_object(w, key, version_id) ==
    /\ pc[w] = "idle"
    /\ op' = [op EXCEPT ![w] = "delete_object"]
    /\ UNCHANGED <<pc, req>>
    /\ IF get_cross_account_bucket(w) = NoAccount
       THEN /\ result' = [result EXCEPT ![w] = "NoSuchBucket"]
            /\ UNCHANGED <<objects, storage, tags, nextVid, notified>>
            /\ response' = [response EXCEPT ![w] = NoResponse]
       ELSE IF versioning_status = "unset"
       THEN IF version_id # NoVid /\ version_id # NullVid
            THEN /\ result' = [result EXCEPT ![w] = "InvalidArgument"]
                 /\ UNCHANGED <<objects, storage, tags, nextVid, notified>>
                 /\ response' = [response EXCEPT ![w] = NoResponse]
            ELSE /\ result' = [result EXCEPT ![w] = "ok"]
                 /\ objects' = [objects EXCEPT ![key] = <<>>]
                 /\ IF HasCurrent(objects, key)
                    THEN /\ storage' = StorageRemove(storage,
                                CompositeKey(key, Current(objects, key).version_id))
                         /\ notify(w, "delete_object", <<Event("ObjectRemoved:Delete", key,
                                Current(objects, key).version_id)>>)
                         /\ tags' = [tags EXCEPT ![get_unique_key_id(key, version_id)] = NoTag]
                    ELSE UNCHANGED <<storage, tags, notified>>
                 /\ response' = [response EXCEPT ![w] = NoResponse]
                 /\ UNCHANGED nextVid
       ELSE IF version_id = NoVid
            THEN /\ versioning_status = "Enabled" => nextVid <= MaxVid
                 /\ objects' = KeyStoreSet(objects, versioning_status, key,
                        S3DeleteMarker(generate_version_id(versioning_status), clock))
                 /\ nextVid' = IF versioning_status = "Enabled" THEN nextVid + 1 ELSE nextVid
                 /\ notify(w, "delete_object", <<Event("ObjectRemoved:DeleteMarkerCreated", key,
                        generate_version_id(versioning_status))>>)
                 /\ result' = [result EXCEPT ![w] = "ok"]
                 /\ response' = [response EXCEPT ![w] =
                        [NoResponse EXCEPT !.version_id = generate_version_id(versioning_status),
                                           !.delete_marker = TRUE]]
                 /\ UNCHANGED <<storage, tags>>
            ELSE IF ~HasCurrent(objects, key)
            THEN /\ result' = [result EXCEPT ![w] = "ok"]
                 /\ response' = [response EXCEPT ![w] = NoResponse]
                 /\ UNCHANGED <<objects, storage, tags, nextVid, notified>>
            ELSE IF ~HasVersion(objects, key, version_id)
            THEN /\ result' = [result EXCEPT ![w] = "InvalidArgument"]
                 /\ UNCHANGED <<objects, storage, tags, nextVid, notified>>
                 /\ response' = [response EXCEPT ![w] = NoResponse]
            ELSE IF is_locked(GetVersion(objects, key, version_id))
            THEN /\ result' = [result EXCEPT ![w] = "AccessDenied"]
                 /\ UNCHANGED <<objects, storage, tags, nextVid, notified>>
                 /\ response' = [response EXCEPT ![w] = NoResponse]
            ELSE /\ objects' = [objects EXCEPT ![key] = RemoveVersion(@, version_id)]
                 /\ IF GetVersion(objects, key, version_id).is_delete_marker
                    THEN UNCHANGED <<storage, tags>>
                    ELSE /\ storage' = StorageRemove(storage, CompositeKey(key, version_id))
                         /\ tags' = [tags EXCEPT ![get_unique_key_id(key, version_id)] = NoTag]
                 /\ notify(w, "delete_object", <<Event("ObjectRemoved:Delete", key, version_id)>>)
                 /\ result' = [result EXCEPT ![w] = "ok"]
                 /\ response' = [response EXCEPT ![w] =
                        [NoResponse EXCEPT !.version_id = version_id,
                            !.delete_marker = GetVersion(objects, key, version_id).is_delete_marker]]
                 /\ UNCHANGED nextVid
    /\ UNCHANGED <<versioning_status, multiparts, mp, wlock, staged, clock, listing,
                   configVars, expiration_cache>>

\* ------------------------------------------------------------- copy_object
\* s3_bucket.get_object(key, version_id) as copy_object sees it
CopySource(store, key, version_id) ==
    IF ~HasCurrent(store, key) THEN "NoSuchKey"
    ELSE IF version_id = NoVid
    THEN IF Current(store, key).is_delete_marker THEN "NoSuchKey" ELSE "ok"
    ELSE IF ~HasVersion(store, key, version_id) THEN "NoSuchVersion"
    ELSE IF GetVersion(store, key, version_id).is_delete_marker THEN "InvalidRequest"
    ELSE "ok"

\* metadata_replace: the request changes the metadata, which allows a copy onto itself
copy_object(w, dest_key, src_key, src_version_id, metadata_replace) ==
    LET found == CopySource(objects, src_key, src_version_id)
        src_s3_object == IF src_version_id = NoVid THEN Current(objects, src_key)
                         ELSE GetVersion(objects, src_key, src_version_id)
        dest_version_id == generate_version_id(versioning_status)
    IN /\ pc[w] = "idle"
       /\ op' = [op EXCEPT ![w] = "copy_object"]
       /\ UNCHANGED <<pc, req>>
       /\ IF found # "ok"
          THEN /\ result' = [result EXCEPT ![w] = found]
               /\ UNCHANGED <<objects, storage, tags, nextVid, notified>>
          ELSE IF src_key = dest_key /\ ~metadata_replace
          THEN /\ result' = [result EXCEPT ![w] = "InvalidRequest"]
               /\ UNCHANGED <<objects, storage, tags, nextVid, notified>>
          ELSE /\ versioning_status = "Enabled" => nextVid <= MaxVid
               /\ nextVid' = IF versioning_status = "Enabled" THEN nextVid + 1 ELSE nextVid
               /\ storage' = StorageWrite(storage, CompositeKey(dest_key, dest_version_id),
                                storage[CompositeKey(src_key, src_s3_object.version_id)])
               /\ objects' = KeyStoreSet(objects, versioning_status, dest_key,
                                S3Object(dest_version_id, src_s3_object.etag, clock))
               /\ tags' = [tags EXCEPT ![get_unique_key_id(dest_key, dest_version_id)] =
                             tags[get_unique_key_id(src_key, src_s3_object.version_id)]]
               /\ notify(w, "copy_object",
                         <<Event("ObjectCreated:Copy", dest_key, dest_version_id)>>)
               /\ result' = [result EXCEPT ![w] = "ok"]
       /\ UNCHANGED <<versioning_status, multiparts, mp, wlock, staged, clock, listing,
                      configVars, expiration_cache, response>>

\* --------------------------------------------------- put_bucket_versioning
\* a faulty variant: the Object Lock configuration of the bucket is not looked at
put_bucket_versioning_whatever_lock(w, status) ==
    /\ pc[w] = "idle"
    /\ status \in {"Enabled", "Suspended"}
    /\ op' = [op EXCEPT ![w] = "put_bucket_versioning"]
    /\ response' = [response EXCEPT ![w] = NoResponse]
    /\ IF get_cross_account_bucket(w) = NoAccount
       THEN /\ result' = [result EXCEPT ![w] = "NoSuchBucket"]
            /\ UNCHANGED <<objects, versioning_status>>
       ELSE /\ result' = [result EXCEPT ![w] = "ok"]
            /\ objects' = IF versioning_status = "unset" THEN from_key_store(objects)
                          ELSE objects
            /\ versioning_status' = status
    /\ UNCHANGED <<tags, multiparts, mp, storeVars, genVars, pc, req, listing, configVars,
                   expiration_cache, notified>>

\* the Status of the request replaces the bucket's, unless the bucket has an Object Lock
\* configuration and the Status is Suspended
put_bucket_versioning(w, status) ==
    /\ pc[w] = "idle"
    /\ status \in {"Enabled", "Suspended"}
    /\ op' = [op EXCEPT ![w] = "put_bucket_versioning"]
    /\ response' = [response EXCEPT ![w] = NoResponse]
    /\ IF get_cross_account_bucket(w) = NoAccount
       THEN /\ result' = [result EXCEPT ![w] = "NoSuchBucket"]
            /\ UNCHANGED <<objects, versioning_status>>
       ELSE IF object_lock_enabled /\ status = "Suspended"
       THEN /\ result' = [result EXCEPT ![w] = "InvalidBucketState"]
            /\ UNCHANGED <<objects, versioning_status>>
       ELSE /\ result' = [result EXCEPT ![w] = "ok"]
            /\ objects' = IF versioning_status = "unset" THEN from_key_store(objects)
                          ELSE objects
            /\ versioning_status' = status
    /\ UNCHANGED <<tags, multiparts, mp, storeVars, genVars, pc, req, listing, configVars,
                   expiration_cache, notified>>

\* the wall clock advances
Tick ==
    /\ clock < MaxClock
    /\ clock' = clock + 1
    /\ UNCHANGED <<bucketVars, storeVars, nextVid, workerVars, listing, extVars>>

\* ------------------------------------------------ get_object and head_object
\* s3_bucket.get_object(key, version_id, http_method): the outcome of the lookup
s3_bucket_get_object(store, status, key, version_id, http_method) ==
    IF status = "unset"
    THEN IF version_id # NoVid /\ version_id # NullVid THEN "InvalidArgument"
         ELSE IF ~HasCurrent(store, key) THEN "NoSuchKey"
         ELSE "ok"
    ELSE IF version_id # NoVid
    THEN IF ~HasVersion(store, key, version_id) THEN "NoSuchVersion"
         ELSE IF GetVersion(store, key, version_id).is_delete_marker THEN "MethodNotAllowed"
         ELSE "ok"
    ELSE IF ~HasCurrent(store, key) THEN "NoSuchKey"
    ELSE IF Current(store, key).is_delete_marker
    THEN IF http_method = "HEAD" THEN "MethodNotAllowed" ELSE "NoSuchKey"
    ELSE "ok"

\* the record that lookup returns when it succeeds
ResolvedObject(store, status, key, version_id) ==
    IF status = "unset" \/ version_id = NoVid THEN Current(store, key)
    ELSE GetVersion(store, key, version_id)

\* s3_object.is_current
is_current(store, key, s3_object) ==
    HasCurrent(store, key) /\ Current(store, key).version_id = s3_object.version_id

\* validate_failed_precondition of a read: If-Match against the etag of the record
validate_failed_precondition(if_match, etag) ==
    IF if_match # <<>> /\ etag # Strip(if_match) THEN "PreconditionFailed" ELSE "ok"

\* a faulty variant: the record found before the read guard is served as it is
reresolve_never(found, held, resolved) == held

\* the record get_object serves once it holds the read guard: the one it found, or
\* the one it looks up again when the stored stream does not carry that record's stamp
reresolve(found, held, resolved) ==
    IF found = "ok" /\ resolved # held THEN resolved ELSE held

\* the lookup and the checks that come before the content store is opened
get_object_start(w, key, version_id, if_match) ==
    LET found == s3_bucket_get_object(objects, versioning_status, key, version_id, "GET")
        s3_object == ResolvedObject(objects, versioning_status, key, version_id)
    IN /\ pc[w] = "idle"
       /\ op' = [op EXCEPT ![w] = "get_object"]
       /\ response' = [response EXCEPT ![w] = NoResponse]
       /\ IF get_cross_account_bucket(w) = NoAccount THEN Finish(w, "NoSuchBucket")
          ELSE IF found # "ok" THEN Finish(w, found)
          ELSE IF validate_failed_precondition(if_match, s3_object.etag) # "ok"
          THEN Finish(w, "PreconditionFailed")
          ELSE /\ req' = [req EXCEPT ![w] =
                            [NoReq EXCEPT !.key = key, !.version_id = version_id,
                                          !.if_match = if_match, !.s3_object = s3_object]]
               /\ pc' = [pc EXCEPT ![w] = "get_open"]
               /\ result' = [result EXCEPT ![w] = "pending"]
       /\ UNCHANGED <<bucketVars, storeVars, genVars, listing, configVars, expiration_cache,
                      notified>>

\* open(mode="r") waits for the writer of the composite key; under the read guard the
\* record is looked up again if it was replaced, and the response is built
get_object_open(w) ==
    LET r == req[w]
        ck == CompositeKey(r.key, r.s3_object.version_id)
        found == s3_bucket_get_object(objects, versioning_status, r.key, r.version_id, "GET")
        s3_object == reresolve(found, r.s3_object,
                         ResolvedObject(objects, versioning_status, r.key, r.version_id))
        expiration == get_expiration_header(lifecycle_rules, r.key, s3_object)
        built == [NoResponse EXCEPT !.version_id = s3_object.version_id,
                                    !.etag = Quoted(s3_object.etag), !.body = storage[ck]]
    IN /\ pc[w] = "get_open"
       /\ wlock[ck] = NoWorker
       /\ IF found # "ok"
          THEN Finish(w, found) /\ UNCHANGED response
          ELSE IF is_current(objects, r.key, s3_object) /\ lifecycle_rules # NoRules
          THEN IF expiration_cache[r.key] # NoHeader
               THEN /\ response' = [response EXCEPT ![w] =
                                      [built EXCEPT !.expiration = expiration]]
                    /\ Finish(w, "ok")
               ELSE /\ response' = [response EXCEPT ![w] = built]
                    /\ req' = [req EXCEPT ![w] = [r EXCEPT !.expiration = expiration]]
                    /\ pc' = [pc EXCEPT ![w] = "get_expiration"]
                    /\ UNCHANGED result
          ELSE /\ response' = [response EXCEPT ![w] = built]
               /\ Finish(w, "ok")
       /\ UNCHANGED <<bucketVars, storeVars, genVars, op, listing, configVars,
                      expiration_cache, notified>>

\* _get_expiration_header after a cache miss: the header computed from the rules the
\* handler read is stored in the cache and returned
get_object_expiration(w) ==
    LET r == req[w]
    IN /\ pc[w] = "get_expiration"
       /\ expiration_cache' = [expiration_cache EXCEPT ![r.key] = r.expiration]
       /\ response' = [response EXCEPT ![w].expiration = r.expiration]
       /\ Finish(w, "ok")
       /\ UNCHANGED <<bucketVars, storeVars, genVars, op, listing, configVars, notified>>

head_object(w, key, version_id, if_match) ==
    LET found == s3_bucket_get_object(objects, versioning_status, key, version_id, "HEAD")
        s3_object == ResolvedObject(objects, versioning_status, key, version_id)
        expiration == IF version_id = NoVid /\ lifecycle_rules # NoRules
                      THEN get_expiration_header(lifecycle_rules, key, s3_object)
                      ELSE NoHeader
    IN /\ pc[w] = "idle"
       /\ op' = [op EXCEPT ![w] = "head_object"]
       /\ UNCHANGED <<pc, req>>
       /\ IF get_cross_account_bucket(w) = NoAccount \/ found # "ok"
             \/ validate_failed_precondition(if_match, s3_object.etag) # "ok"
          THEN /\ result' = [result EXCEPT ![w] =
                     IF get_cross_account_bucket(w) = NoAccount THEN "NoSuchBucket"
                     ELSE IF found # "ok" THEN found ELSE "PreconditionFailed"]
               /\ response' = [response EXCEPT ![w] = NoResponse]
               /\ UNCHANGED expiration_cache
          ELSE /\ result' = [result EXCEPT ![w] = "ok"]
               /\ response' = [response EXCEPT ![w] =
                     [NoResponse EXCEPT !.version_id = s3_object.version_id,
                                        !.etag = Quoted(s3_object.etag),
                                        !.expiration = expiration]]
               /\ expiration_cache' = IF expiration = NoHeader THEN expiration_cache
                                      ELSE [expiration_cache EXCEPT ![key] = expiration]
       /\ UNCHANGED <<bucketVars, storeVars, genVars, listing, configVars, notified>>

\* ------------------------------------------------------------ lifecycle rules
MaxRules == 2        \* lifecycle configurations are the rules 1..MaxRules
LifecycleInputs == 1..MaxRules

\* the new rules replace the old ones and the bucket's expiration cache is cleared
put_bucket_lifecycle_configuration(w, rules) ==
    /\ pc[w] = "idle"
    /\ op' = [op EXCEPT ![w] = "put_bucket_lifecycle_configuration"]
    /\ response' = [response EXCEPT ![w] = NoResponse]
    /\ UNCHANGED <<pc, req>>
    /\ IF get_cross_account_bucket(w) = NoAccount
       THEN /\ result' = [result EXCEPT ![w] = "NoSuchBucket"]
            /\ UNCHANGED <<lifecycle_rules, expiration_cache>>
       ELSE /\ result' = [result EXCEPT ![w] = "ok"]
            /\ lifecycle_rules' = rules
            /\ expiration_cache' = [k \in Keys |-> NoHeader]
    /\ UNCHANGED <<bucketVars, storeVars, genVars, listing, buckets, global_bucket_map,
                   notification_configuration, object_lock_enabled, bucket_tags, notified>>

delete_bucket_lifecycle(w) ==
    /\ pc[w] = "idle"
    /\ op' = [op EXCEPT ![w] = "delete_bucket_lifecycle"]
    /\ response' = [response EXCEPT ![w] = NoResponse]
    /\ UNCHANGED <<pc, req>>
    /\ IF get_cross_account_bucket(w) = NoAccount
       THEN /\ result' = [result EXCEPT ![w] = "NoSuchBucket"]
            /\ UNCHANGED <<lifecycle_rules, expiration_cache>>
       ELSE /\ result' = [result EXCEPT ![w] = "ok"]
            /\ lifecycle_rules' = NoRules
            /\ expiration_cache' = [k \in Keys |-> NoHeader]
    /\ UNCHANGED <<bucketVars, storeVars, genVars, listing, buckets, global_bucket_map,
                   notification_configuration, object_lock_enabled, bucket_tags, notified>>

\* ----------------------------------------------- create_bucket, delete_bucket
\* a faulty variant: a create by the owner in us-east-1 builds the bucket anew
collision_recreating(existing_bucket_owner, account, bucket_region) ==
    IF existing_bucket_owner = NoAccount THEN "create"
    ELSE IF existing_bucket_owner # account THEN "BucketAlreadyExists"
    ELSE IF bucket_region # "us-east-1" THEN "BucketAlreadyOwnedByYou"
    ELSE "create"

\* create_bucket on a name the global bucket map may already hold: build the bucket,
\* fail, or return the idempotent success of us-east-1
collision(existing_bucket_owner, account, bucket_region) ==
    IF existing_bucket_owner = NoAccount THEN "create"
    ELSE IF existing_bucket_owner # account THEN "BucketAlreadyExists"
    ELSE IF bucket_region # "us-east-1" THEN "BucketAlreadyOwnedByYou"
    ELSE "ok"

\* the request is valid; the name is looked up in the global bucket map
create_bucket_start(w, bucket_region) ==
    LET outcome == collision(global_bucket_map, w, bucket_region)
    IN /\ pc[w] = "idle"
       /\ op' = [op EXCEPT ![w] = "create_bucket"]
       /\ response' = [response EXCEPT ![w] = NoResponse]
       /\ IF outcome # "create" THEN Finish(w, outcome)
          ELSE /\ req' = [req EXCEPT ![w] = [NoReq EXCEPT !.region = bucket_region]]
               /\ pc' = [pc EXCEPT ![w] = "create_store"]
               /\ result' = [result EXCEPT ![w] = "pending"]
       /\ UNCHANGED <<bucketVars, storeVars, genVars, listing, configVars, expiration_cache,
                      notified>>

\* store.buckets[bucket_name] = s3_bucket: a new S3Bucket, empty, nothing configured
create_bucket_store(w) ==
    /\ pc[w] = "create_store"
    /\ buckets' = [buckets EXCEPT ![w] = req[w].region]
    /\ versioning_status' = "unset"
    /\ objects' = [k \in DOMAIN objects |-> <<>>]
    /\ multiparts' = {}
    /\ lifecycle_rules' = NoRules
    /\ notification_configuration' = FALSE
    /\ object_lock_enabled' = FALSE
    /\ pc' = [pc EXCEPT ![w] = "create_global"]
    /\ UNCHANGED <<tags, mp, storeVars, genVars, op, result, req, listing, global_bucket_map,
                   expiration_cache, notified, response, bucket_tags>>

\* store.global_bucket_map[bucket_name] = s3_bucket.bucket_account_id
create_bucket_global(w) ==
    /\ pc[w] = "create_global"
    /\ global_bucket_map' = w
    /\ Finish(w, "ok")
    /\ UNCHANGED <<bucketVars, storeVars, genVars, op, listing, buckets, lifecycle_rules,
                   notification_configuration, object_lock_enabled, bucket_tags, expiration_cache,
                   notified, response>>

\* a faulty variant: an empty key store is required only of an unversioned bucket
is_empty_unless_versioned(store, status) ==
    status # "unset" \/ \A k \in DOMAIN store : store[k] = <<>>

\* s3_bucket.objects.is_empty()
is_empty(store, status) == \A k \in DOMAIN store : store[k] = <<>>

\* the bucket is looked up and must hold no version and no delete marker
delete_bucket_start(w) ==
    /\ pc[w] = "idle"
    /\ op' = [op EXCEPT ![w] = "delete_bucket"]
    /\ response' = [response EXCEPT ![w] = NoResponse]
    /\ IF get_cross_account_bucket(w) = NoAccount THEN Finish(w, "NoSuchBucket")
       ELSE IF ~is_empty(objects, versioning_status) THEN Finish(w, "BucketNotEmpty")
       ELSE /\ req' = [req EXCEPT ![w] = [NoReq EXCEPT !.owner = get_cross_account_bucket(w)]]
            /\ pc' = [pc EXCEPT ![w] = "delete_pop"]
            /\ result' = [result EXCEPT ![w] = "pending"]
    /\ UNCHANGED <<bucketVars, storeVars, genVars, listing, configVars, expiration_cache,
                   notified>>

\* store.buckets.pop(bucket), a KeyError when the name is gone from the owner's map
delete_bucket_pop(w) ==
    /\ pc[w] = "delete_pop"
    /\ IF buckets[req[w].owner] = NoBucket
       THEN Finish(w, "InternalError") /\ UNCHANGED buckets
       ELSE /\ buckets' = [buckets EXCEPT ![req[w].owner] = NoBucket]
            /\ pc' = [pc EXCEPT ![w] = "delete_global"]
            /\ UNCHANGED <<result, req>>
    /\ UNCHANGED <<bucketVars, storeVars, genVars, op, listing, global_bucket_map,
                   lifecycle_rules, notification_configuration, object_lock_enabled, bucket_tags,
                   expiration_cache, notified, response>>

\* store.global_bucket_map.pop(bucket), a KeyError when the name is gone from it; then
\* the bucket's expiration cache is dropped
delete_bucket_global(w) ==
    /\ pc[w] = "delete_global"
    /\ IF global_bucket_map = NoAccount
       THEN Finish(w, "InternalError") /\ UNCHANGED <<global_bucket_map, expiration_cache>>
       ELSE /\ global_bucket_map' = NoAccount
            /\ expiration_cache' = [k \in DOMAIN expiration_cache |-> NoHeader]
            /\ Finish(w, "ok")
    /\ UNCHANGED <<bucketVars, storeVars, genVars, op, listing, buckets, lifecycle_rules,
                   notification_configuration, object_lock_enabled, bucket_tags, notified, response>>

\* ------------------------------------- notifications, object lock, tagging
put_bucket_notification_configuration(w, configuration) ==
    /\ pc[w] = "idle"
    /\ op' = [op EXCEPT ![w] = "put_bucket_notification_configuration"]
    /\ response' = [response EXCEPT ![w] = NoResponse]
    /\ UNCHANGED <<pc, req>>
    /\ IF get_cross_account_bucket(w) = NoAccount
       THEN /\ result' = [result EXCEPT ![w] = "NoSuchBucket"]
            /\ UNCHANGED notification_configuration
       ELSE /\ result' = [result EXCEPT ![w] = "ok"]
            /\ notification_configuration' = configuration
    /\ UNCHANGED <<bucketVars, storeVars, genVars, listing, buckets, global_bucket_map,
                   lifecycle_rules, object_lock_enabled, bucket_tags, expiration_cache, notified>>

\* an Object Lock configuration without a rule
put_object_lock_configuration(w) ==
    /\ pc[w] = "idle"
    /\ op' = [op EXCEPT ![w] = "put_object_lock_configuration"]
    /\ response' = [response EXCEPT ![w] = NoResponse]
    /\ UNCHANGED <<pc, req>>
    /\ IF get_cross_account_bucket(w) = NoAccount
       THEN /\ result' = [result EXCEPT ![w] = "NoSuchBucket"]
            /\ UNCHANGED object_lock_enabled
       ELSE IF versioning_status # "Enabled"
       THEN /\ result' = [result EXCEPT ![w] = "InvalidBucketState"]
            /\ UNCHANGED object_lock_enabled
       ELSE /\ result' = [result EXCEPT ![w] = "ok"]
            /\ object_lock_enabled' = TRUE
    /\ UNCHANGED <<bucketVars, storeVars, genVars, listing, buckets, global_bucket_map,
                   lifecycle_rules, notification_configuration, expiration_cache, notified,
                   bucket_tags>>

\* status: the legal hold is ON
put_object_legal_hold(w, key, version_id, status) ==
    LET found == s3_bucket_get_object(objects, versioning_status, key, version_id, "PUT")
        s3_object == ResolvedObject(objects, versioning_status, key, version_id)
    IN /\ pc[w] = "idle"
       /\ op' = [op EXCEPT ![w] = "put_object_legal_hold"]
       /\ response' = [response EXCEPT ![w] = NoResponse]
       /\ UNCHANGED <<pc, req>>
       /\ IF get_cross_account_bucket(w) = NoAccount
          THEN result' = [result EXCEPT ![w] = "NoSuchBucket"] /\ UNCHANGED objects
          ELSE IF ~object_lock_enabled
          THEN result' = [result EXCEPT ![w] = "InvalidRequest"] /\ UNCHANGED objects
          ELSE IF found # "ok"
          THEN result' = [result EXCEPT ![w] = found] /\ UNCHANGED objects
          ELSE /\ result' = [result EXCEPT ![w] = "ok"]
               /\ objects' = [objects EXCEPT ![key] =
                     [i \in 1..Len(@) |->
                        IF @[i].version_id = s3_object.version_id
                        THEN [@[i] EXCEPT !.lock_legal_status = status] ELSE @[i]]]
       /\ UNCHANGED <<versioning_status, tags, multiparts, mp, storeVars, genVars, listing,
                      configVars, expiration_cache, notified>>

put_object_tagging(w, key, version_id, tagging) ==
    LET found == s3_bucket_get_object(objects, versioning_status, key, version_id, "PUT")
        s3_object == ResolvedObject(objects, versioning_status, key, version_id)
    IN /\ pc[w] = "idle"
       /\ op' = [op EXCEPT ![w] = "put_object_tagging"]
       /\ UNCHANGED <<pc, req>>
       /\ IF get_cross_account_bucket(w) = NoAccount \/ found # "ok"
          THEN /\ result' = [result EXCEPT ![w] =
                     IF get_cross_account_bucket(w) = NoAccount THEN "NoSuchBucket" ELSE found]
               /\ response' = [response EXCEPT ![w] = NoResponse]
               /\ UNCHANGED <<tags, notified>>
          ELSE /\ result' = [result EXCEPT ![w] = "ok"]
               /\ tags' = [tags EXCEPT ![get_unique_key_id(key, s3_object.version_id)] = tagging]
               /\ response' = [response EXCEPT ![w] =
                     [NoResponse EXCEPT !.version_id = s3_object.version_id]]
               /\ notify(w, "put_object_tagging",
                         <<Event("ObjectTagging:Put", key, s3_object.version_id)>>)
       /\ UNCHANGED <<versioning_status, objects, multiparts, mp, storeVars, genVars, listing,
                      configVars, expiration_cache>>

\* ----------------------------------------------------------- delete_objects
\* the loop of delete_objects over the entries <<key, version_id>> still to process;
\* st holds the key store, tags, content store, next fresh id and the lists built so far
RECURSIVE delete_objects_loop(_, _)
delete_objects_loop(entries, st) ==
    IF entries = <<>> THEN st
    ELSE
    LET key == Head(entries)[1]
        version_id == Head(entries)[2]
        rest == Tail(entries)
        failed(code) == [key |-> key, version_id |-> version_id, code |-> code]
        done(marker, id) == [key |-> key, version_id |-> id, delete_marker |-> marker]
    IN IF versioning_status = "unset"
       THEN IF version_id # NoVid /\ version_id # NullVid
            THEN delete_objects_loop(rest,
                    [st EXCEPT !.errors = Append(@, failed("NoSuchVersion"))])
            ELSE IF HasCurrent(st.objects, key)
            THEN delete_objects_loop(rest,
                    [st EXCEPT !.objects[key] = <<>>,
                               !.storage = StorageRemove(@, CompositeKey(key, NoVid)),
                               !.tags[get_unique_key_id(key, version_id)] = NoTag,
                               !.events = Append(@, Event("ObjectRemoved:Delete", key, NoVid)),
                               !.deleted = Append(@, done(FALSE, NoVid))])
            ELSE delete_objects_loop(rest,
                    [st EXCEPT !.events = Append(@, Event("ObjectRemoved:Delete", key, NoVid)),
                               !.deleted = Append(@, done(FALSE, NoVid))])
       ELSE IF version_id = NoVid
       THEN LET delete_marker_id ==
                    IF versioning_status = "Enabled" THEN st.nextVid ELSE NullVid
            IN delete_objects_loop(rest,
                    [st EXCEPT !.objects = KeyStoreSet(@, versioning_status, key,
                                              S3DeleteMarker(delete_marker_id, clock)),
                               !.nextVid = IF versioning_status = "Enabled" THEN @ + 1 ELSE @,
                               !.events = Append(@, Event("ObjectRemoved:DeleteMarkerCreated",
                                                          key, delete_marker_id)),
                               !.deleted = Append(@, done(TRUE, delete_marker_id))])
       ELSE IF ~HasVersion(st.objects, key, version_id)
       THEN delete_objects_loop(rest,
                    [st EXCEPT !.errors = Append(@, failed("NoSuchVersion"))])
       ELSE IF is_locked(GetVersion(st.objects, key, version_id))
       THEN delete_objects_loop(rest,
                    [st EXCEPT !.errors = Append(@, failed("AccessDenied"))])
       ELSE LET found_object == GetVersion(st.objects, key, version_id)
            IN delete_objects_loop(rest,
                    [st EXCEPT !.objects[key] = RemoveVersion(@, version_id),
                               !.storage = IF found_object.is_delete_marker THEN @
                                           ELSE StorageRemove(@, CompositeKey(key, version_id)),
                               !.tags[get_unique_key_id(key, version_id)] = NoTag,
                               !.events = Append(@, Event("ObjectRemoved:Delete", key,
                                                          version_id)),
                               !.deleted = Append(@, done(found_object.is_delete_marker,
                                                          version_id))])

delete_objects(w, entries) ==
    LET out == delete_objects_loop(entries,
                   [objects |-> objects, tags |-> tags, storage |-> storage,
                    nextVid |-> nextVid, events |-> <<>>, deleted |-> <<>>, errors |-> <<>>])
    IN /\ pc[w] = "idle"
       /\ op' = [op EXCEPT ![w] = "delete_objects"]
       /\ UNCHANGED <<pc, req>>
       /\ IF get_cross_account_bucket(w) = NoAccount
          THEN /\ result' = [result EXCEPT ![w] = "NoSuchBucket"]
               /\ response' = [response EXCEPT ![w] = NoResponse]
               /\ UNCHANGED <<objects, tags, storage, nextVid, notified>>
          ELSE /\ out.nextVid <= MaxVid + 1
               /\ result' = [result EXCEPT ![w] = "ok"]
               /\ objects' = out.objects
               /\ tags' = out.tags
               /\ storage' = out.storage
               /\ nextVid' = out.nextVid
               /\ response' = [response EXCEPT ![w] =
                     [NoResponse EXCEPT !.deleted = out.deleted, !.errors = out.errors]]
               /\ notify(w, "delete_objects", out.events)
       /\ UNCHANGED <<versioning_status, multiparts, mp, wlock, staged, clock, listing,
                      configVars, expiration_cache>>

\* --------------------------------------------------------------- multipart
S3Multipart(key, tagging) ==
    [key |-> key, initiated |-> clock, tagging |-> tagging,
     precondition |-> object_exists_for_precondition_write(objects, key),
     parts |-> [n \in ReqPartNums |-> <<>>],
     version_id |-> NoVid, etag |-> <<>>]

\* An S3Multipart that was popped from s3_bucket.multiparts lives on only while a
\* handler still holds it; after that nothing can read it, and its record is blank.
Released ==
    [key |-> RaceKey, initiated |-> NoTime, tagging |-> NoTag, precondition |-> FALSE,
     parts |-> [n \in ReqPartNums |-> <<>>], version_id |-> NoVid, etag |-> <<>>]
HeldByOther(w, upload_id) ==
    \E v \in Workers \ {w} : pc[v] = "complete_store" /\ req[v].upload_id = upload_id
Release(w, upload_id, registered) ==
    IF upload_id \in registered \/ HeldByOther(w, upload_id) THEN mp
    ELSE [mp EXCEPT ![upload_id] = Released]

\* s3_bucket.multiparts.get(upload_id), and the key it was created for
UploadExists(upload_id, key) == upload_id \in multiparts /\ mp[upload_id].key = key

RECURSIVE ConcatParts(_, _)
ConcatParts(f, list) ==
    IF list = <<>> THEN <<>> ELSE f[Head(list)] \o ConcatParts(f, Tail(list))

\* etag of a completed upload: MD5 over the parts' MD5s, "-", the part count
MultipartEtag(parts, list) == <<150>> \o ConcatParts(parts, list) \o <<151, Len(list)>>

\* sorted(parts_numbers) == parts_numbers
IsSortedList(list) == \A i \in 1..Len(list) : \A j \in i..Len(list) : list[i] <= list[j]

PartsLists == UNION {[1..n -> PartNums] : n \in 0..MaxListLen}
UploadIds == 1..MaxUploads

\* a faulty variant: the tagging of the upload is written to the tag table at once
create_multipart_upload_tagging_at_once(w, key, tagging) ==
    /\ pc[w] = "idle"
    /\ Len(mp) < MaxUploads
    /\ op' = [op EXCEPT ![w] = "create_multipart_upload"]
    /\ response' = [response EXCEPT ![w] = NoResponse]
    /\ result' = [result EXCEPT ![w] = "ok"]
    /\ mp' = Append(mp, S3Multipart(key, tagging))
    /\ multiparts' = multiparts \cup {Len(mp) + 1}
    /\ staged' = Append(staged, [n \in ReqPartNums |-> NoBytes])
    /\ tags' = [tags EXCEPT ![get_unique_key_id(key, NoVid)] = tagging]
    /\ UNCHANGED <<versioning_status, objects, storage, wlock, genVars, pc, req,
                   listing, configVars, expiration_cache, notified>>

create_multipart_upload(w, key, tagging) ==
    /\ pc[w] = "idle"
    /\ Len(mp) < MaxUploads
    /\ op' = [op EXCEPT ![w] = "create_multipart_upload"]
    /\ response' = [response EXCEPT ![w] = NoResponse]
    /\ result' = [result EXCEPT ![w] = "ok"]
    /\ mp' = Append(mp, S3Multipart(key, tagging))
    /\ multiparts' = multiparts \cup {Len(mp) + 1}
    /\ staged' = Append(staged, [n \in ReqPartNums |-> NoBytes])
    /\ UNCHANGED <<versioning_status, objects, tags, storage, wlock, genVars, pc, req,
                   listing, configVars, expiration_cache, notified>>

\* the outcome of the checksum and Content-MD5 validation of a part
PartIntegrity(body, content_md5, checksum) ==
    IF checksum.algorithm /\ ~validate_checksum_value(checksum.value) THEN "InvalidRequest"
    ELSE IF checksum.algorithm /\ checksum.value # Checksum(body) THEN "BadDigest"
    ELSE IF content_md5 # <<>>
       /\ etag_to_base_64_content_md5(MD5Hex(body)) # content_md5 THEN "BadDigest"
    ELSE "ok"

\* a faulty variant: the part number is not validated
upload_part_any_number(w, upload_id, key, part_number, body, content_md5, checksum) ==
    /\ pc[w] = "idle"
    /\ op' = [op EXCEPT ![w] = "upload_part"]
    /\ response' = [response EXCEPT ![w] = NoResponse]
    /\ UNCHANGED <<pc, req>>
    /\ IF ~UploadExists(upload_id, key)
       THEN /\ result' = [result EXCEPT ![w] = "NoSuchUpload"]
            /\ UNCHANGED <<mp, staged>>
       ELSE /\ result' = [result EXCEPT ![w] = "ok"]
            /\ staged' = [staged EXCEPT ![upload_id][part_number] = body]
            /\ mp' = [mp EXCEPT ![upload_id].parts[part_number] = MD5Hex(body)]
    /\ UNCHANGED <<versioning_status, objects, tags, multiparts, storage, wlock, genVars,
                   listing, configVars, expiration_cache, notified>>

\* a faulty variant: a part number that was already uploaded keeps its first upload
upload_part_keeping_first(w, upload_id, key, part_number, body, content_md5, checksum) ==
    /\ pc[w] = "idle"
    /\ op' = [op EXCEPT ![w] = "upload_part"]
    /\ response' = [response EXCEPT ![w] = NoResponse]
    /\ UNCHANGED <<pc, req>>
    /\ IF ~UploadExists(upload_id, key)
       THEN /\ result' = [result EXCEPT ![w] = "NoSuchUpload"]
            /\ UNCHANGED <<mp, staged>>
       ELSE IF part_number < 1 \/ part_number > MaxPartNumber
       THEN /\ result' = [result EXCEPT ![w] = "InvalidArgument"]
            /\ UNCHANGED <<mp, staged>>
       ELSE IF mp[upload_id].parts[part_number] # <<>>
       THEN /\ result' = [result EXCEPT ![w] = "ok"]
            /\ UNCHANGED <<mp, staged>>
       ELSE /\ result' = [result EXCEPT ![w] = "ok"]
            /\ staged' = [staged EXCEPT ![upload_id][part_number] = body]
            /\ mp' = [mp EXCEPT ![upload_id].parts[part_number] = MD5Hex(body)]
    /\ UNCHANGED <<versioning_status, objects, tags, multiparts, storage, wlock, genVars,
                   listing, configVars, expiration_cache, notified>>

upload_part(w, upload_id, key, part_number, body, content_md5, checksum) ==
    /\ pc[w] = "idle"
    /\ op' = [op EXCEPT ![w] = "upload_part"]
    /\ response' = [response EXCEPT ![w] = NoResponse]
    /\ UNCHANGED <<pc, req>>
    /\ IF ~UploadExists(upload_id, key)
       THEN /\ result' = [result EXCEPT ![w] = "NoSuchUpload"]
            /\ UNCHANGED <<mp, staged>>
       ELSE IF part_number < 1 \/ part_number > MaxPartNumber
       THEN /\ result' = [result EXCEPT ![w] = "InvalidArgument"]
            /\ UNCHANGED <<mp, staged>>
       ELSE IF PartIntegrity(body, content_md5, checksum) # "ok"
       THEN /\ result' = [result EXCEPT ![w] = PartIntegrity(body, content_md5, checksum)]
            /\ staged' = [staged EXCEPT ![upload_id][part_number] = NoBytes]
            /\ UNCHANGED mp
       ELSE /\ result' = [result EXCEPT ![w] = "ok"]
            /\ staged' = [staged EXCEPT ![upload_id][part_number] = body]
            /\ mp' = [mp EXCEPT ![upload_id].parts[part_number] = MD5Hex(body)]
    /\ UNCHANGED <<versioning_status, objects, tags, multiparts, storage, wlock, genVars,
                   listing, configVars, expiration_cache, notified>>

upload_part_copy(w, upload_id, key, part_number, src_key) ==
    LET src == CompositeKey(src_key, Current(objects, src_key).version_id)
    IN /\ pc[w] = "idle"
       /\ op' = [op EXCEPT ![w] = "upload_part_copy"]
       /\ response' = [response EXCEPT ![w] = NoResponse]
       /\ UNCHANGED <<pc, req>>
       /\ IF ~object_exists_for_precondition_write(objects, src_key)
          THEN /\ result' = [result EXCEPT ![w] = "NoSuchKey"]
               /\ UNCHANGED <<mp, staged>>
          ELSE IF ~UploadExists(upload_id, key)
          THEN /\ result' = [result EXCEPT ![w] = "NoSuchUpload"]
               /\ UNCHANGED <<mp, staged>>
          ELSE IF part_number < 1 \/ part_number > MaxPartNumber
          THEN /\ result' = [result EXCEPT ![w] = "InvalidArgument"]
               /\ UNCHANGED <<mp, staged>>
          ELSE IF storage[src] = NoBytes
          THEN /\ result' = [result EXCEPT ![w] = "InternalError"]
               /\ UNCHANGED <<mp, staged>>
          ELSE /\ result' = [result EXCEPT ![w] = "ok"]
               /\ staged' = [staged EXCEPT ![upload_id][part_number] = storage[src]]
               /\ mp' = [mp EXCEPT ![upload_id].parts[part_number] = MD5Hex(storage[src])]
       /\ UNCHANGED <<versioning_status, objects, tags, multiparts, storage, wlock, genVars,
                      listing, configVars, expiration_cache, notified>>

\* sorted(s3_multipart.parts.items()): the numbers of the uploaded parts, ascending
RECURSIVE SortedNumbers(_)
SortedNumbers(numbers) ==
    IF numbers = {} THEN <<>>
    ELSE LET least == CHOOSE n \in numbers : \A m \in numbers : n <= m
         IN <<least>> \o SortedNumbers(numbers \ {least})
UploadedParts(parts) == SortedNumbers({n \in DOMAIN parts : parts[n] # <<>>})

DefaultMaxParts == 1000
NoPartsPage == [parts |-> <<>>, is_truncated |-> FALSE, next_part_number_marker |-> 0]

\* the loop of list_parts over the parts still to visit: parts up to the marker are
\* skipped, and the loop stops, truncated, with the part that fills the page unless
\* that part is the last of the upload
RECURSIVE list_parts_loop(_, _, _, _, _)
list_parts_loop(all_parts, part_number_marker, max_parts, last_part_number, page) ==
    IF all_parts = <<>> THEN page
    ELSE IF Head(all_parts) <= part_number_marker
    THEN list_parts_loop(Tail(all_parts), part_number_marker, max_parts, last_part_number, page)
    ELSE LET parts == Append(page.parts, Head(all_parts))
         IN IF Len(parts) >= max_parts /\ Head(all_parts) # last_part_number
            THEN [page EXCEPT !.parts = parts, !.is_truncated = TRUE]
            ELSE list_parts_loop(Tail(all_parts), part_number_marker, max_parts,
                                 last_part_number, [page EXCEPT !.parts = parts])

\* the page of list_parts; max_parts = 0 and part_number_marker = 0 also stand for
\* parameters that were not given
list_parts_page(parts, max_parts, part_number_marker) ==
    LET all_parts == UploadedParts(parts)
        last_part_number == IF all_parts = <<>> THEN 0 ELSE all_parts[Len(all_parts)]
        page == list_parts_loop(all_parts, part_number_marker,
                                IF max_parts = 0 THEN DefaultMaxParts ELSE max_parts,
                                last_part_number, NoPartsPage)
    IN [page EXCEPT !.next_part_number_marker =
           IF page.parts = <<>> THEN 0 ELSE page.parts[Len(page.parts)]]

list_parts(w, upload_id, key, max_parts, part_number_marker) ==
    /\ pc[w] = "idle"
    /\ op' = [op EXCEPT ![w] = "list_parts"]
    /\ response' = [response EXCEPT ![w] =
            IF UploadExists(upload_id, key)
            THEN [NoResponse EXCEPT !.page =
                     list_parts_page(mp[upload_id].parts, max_parts, part_number_marker)]
            ELSE NoResponse]
    /\ result' = [result EXCEPT ![w] =
            IF UploadExists(upload_id, key) THEN "ok" ELSE "NoSuchUpload"]
    /\ UNCHANGED <<bucketVars, storeVars, genVars, pc, req, listing, configVars,
                   expiration_cache, notified>>

\* a faulty variant: the snapshot taken when the upload was created is not consulted
CompletePreconditionWithoutSnapshot(store, m, key, if_match, if_none_match) ==
    IF if_none_match # <<>> /\ if_match # <<>> THEN "NotImplemented"
    ELSE IF if_none_match # <<>>
    THEN IF if_none_match # <<STAR>> THEN "NotImplemented"
         ELSE IF object_exists_for_precondition_write(store, key) THEN "PreconditionFailed"
         ELSE "ok"
    ELSE IF if_match # <<>>
    THEN IF if_match = <<STAR>> THEN "NotImplemented"
         ELSE verify_object_equality_precondition_write(store, key, if_match, m.initiated)
    ELSE "ok"

\* the conditional checks of complete_multipart_upload
CompletePrecondition(store, m, key, if_match, if_none_match) ==
    IF if_none_match # <<>> /\ if_match # <<>> THEN "NotImplemented"
    ELSE IF if_none_match # <<>>
    THEN IF if_none_match # <<STAR>> THEN "NotImplemented"
         ELSE IF object_exists_for_precondition_write(store, key) THEN "PreconditionFailed"
         ELSE IF m.precondition THEN "ConditionalRequestConflict"
         ELSE "ok"
    ELSE IF if_match # <<>>
    THEN IF if_match = <<STAR>> THEN "NotImplemented"
         ELSE verify_object_equality_precondition_write(store, key, if_match, m.initiated)
    ELSE "ok"

\* the validation of the parts list
CompleteParts(list) ==
    IF list = <<>> THEN "InvalidRequest"
    ELSE IF ~IsSortedList(list) THEN "InvalidPartOrder"
    ELSE "ok"

\* lookup, conditional checks, parts validation, version id, S3Multipart.complete_multipart
complete_multipart_upload_start(w, upload_id, key, if_match, if_none_match, parts) ==
    /\ pc[w] = "idle"
    /\ op' = [op EXCEPT ![w] = "complete_multipart_upload"]
    /\ response' = [response EXCEPT ![w] = NoResponse]
    /\ IF ~UploadExists(upload_id, key)
       THEN Finish(w, "NoSuchUpload") /\ UNCHANGED <<mp, nextVid>>
       ELSE LET m == mp[upload_id]
                cond == CompletePrecondition(objects, m, key, if_match, if_none_match)
            IN IF cond # "ok"
               THEN Finish(w, cond) /\ UNCHANGED <<mp, nextVid>>
               ELSE IF CompleteParts(parts) # "ok"
               THEN Finish(w, CompleteParts(parts)) /\ UNCHANGED <<mp, nextVid>>
               ELSE /\ versioning_status = "Enabled" => nextVid <= MaxVid
                    /\ nextVid' = IF versioning_status = "Enabled"
                                  THEN nextVid + 1 ELSE nextVid
                    /\ IF \E i \in 1..Len(parts) : m.parts[parts[i]] = <<>>
                       THEN /\ Finish(w, "InvalidPart")
                            /\ mp' = [mp EXCEPT ![upload_id].version_id =
                                        generate_version_id(versioning_status)]
                       ELSE /\ mp' = [mp EXCEPT
                                 ![upload_id].version_id = generate_version_id(versioning_status),
                                 ![upload_id].etag = MultipartEtag(m.parts, parts)]
                            /\ pc' = [pc EXCEPT ![w] = "complete_store"]
                            /\ result' = [result EXCEPT ![w] = "pending"]
                            /\ req' = [req EXCEPT ![w] =
                                 [NoReq EXCEPT !.key = key, !.upload_id = upload_id,
                                    !.parts = parts, !.if_match = if_match,
                                    !.if_none_match = if_none_match,
                                    !.version_id = generate_version_id(versioning_status)]]
    /\ UNCHANGED <<versioning_status, objects, tags, multiparts, storeVars, clock, listing,
                   configVars, expiration_cache, notified>>

\* assemble the bytes, commit the object, drop the upload and its staging, set the tags
complete_multipart_upload_commit(w) ==
    LET r == req[w]
        m == mp[r.upload_id]
        ck == CompositeKey(r.key, m.version_id)
    IN /\ pc[w] = "complete_store"
       /\ IF \E i \in 1..Len(r.parts) : staged[r.upload_id][r.parts[i]] = NoBytes
          THEN /\ Finish(w, "InternalError")
               /\ mp' = Release(w, r.upload_id, multiparts)
               /\ UNCHANGED <<objects, tags, multiparts, storage, staged, notified>>
          ELSE /\ storage' = StorageWrite(storage, ck, ConcatParts(staged[r.upload_id], r.parts))
               /\ objects' = KeyStoreSet(objects, versioning_status, r.key,
                                S3Object(m.version_id, m.etag, m.initiated))
               /\ staged' = [staged EXCEPT ![r.upload_id] = [n \in ReqPartNums |-> NoBytes]]
               /\ multiparts' = multiparts \ {r.upload_id}
               /\ tags' = [tags EXCEPT ![get_unique_key_id(r.key, r.version_id)] = m.tagging]
               /\ mp' = Release(w, r.upload_id, multiparts \ {r.upload_id})
               /\ notify(w, "complete_multipart_upload",
                         <<Event("ObjectCreated:CompleteMultipartUpload", r.key, m.version_id)>>)
               /\ Finish(w, "ok")
       /\ UNCHANGED <<versioning_status, wlock, genVars, op, listing, configVars,
                      expiration_cache, response>>

\* a faulty variant: the staging is dropped but the upload stays registered
abort_multipart_upload_keeping_entry(w, upload_id, key) ==
    /\ pc[w] = "idle"
    /\ op' = [op EXCEPT ![w] = "abort_multipart_upload"]
    /\ response' = [response EXCEPT ![w] = NoResponse]
    /\ UNCHANGED <<pc, req>>
    /\ IF ~UploadExists(upload_id, key)
       THEN /\ result' = [result EXCEPT ![w] = "NoSuchUpload"]
            /\ UNCHANGED <<multiparts, mp, staged>>
       ELSE /\ result' = [result EXCEPT ![w] = "ok"]
            /\ staged' = [staged EXCEPT ![upload_id] = [n \in ReqPartNums |-> NoBytes]]
            /\ UNCHANGED <<multiparts, mp>>
    /\ UNCHANGED <<versioning_status, objects, tags, storage, wlock, genVars, listing,
                   configVars, expiration_cache, notified>>

abort_multipart_upload(w, upload_id, key) ==
    /\ pc[w] = "idle"
    /\ op' = [op EXCEPT ![w] = "abort_multipart_upload"]
    /\ response' = [response EXCEPT ![w] = NoResponse]
    /\ UNCHANGED <<pc, req>>
    /\ IF ~UploadExists(upload_id, key)
       THEN /\ result' = [result EXCEPT ![w] = "NoSuchUpload"]
            /\ UNCHANGED <<multiparts, mp, staged>>
       ELSE /\ result' = [result EXCEPT ![w] = "ok"]
            /\ multiparts' = multiparts \ {upload_id}
            /\ mp' = Release(w, upload_id, multiparts \ {upload_id})
            /\ staged' = [staged EXCEPT ![upload_id] = [n \in ReqPartNums |-> NoBytes]]
    /\ UNCHANGED <<versioning_status, objects, tags, storage, wlock, genVars, listing,
                   configVars, expiration_cache, notified>>

\* abort_multipart_upload cut at its two accesses to s3_bucket.multiparts, for the
\* clients that run it concurrently with other requests: first the lookup
abort_multipart_upload_start(w, upload_id, key) ==
    /\ pc[w] = "idle"
    /\ op' = [op EXCEPT ![w] = "abort_multipart_upload"]
    /\ response' = [response EXCEPT ![w] = NoResponse]
    /\ IF ~UploadExists(upload_id, key)
       THEN Finish(w, "NoSuchUpload")
       ELSE /\ pc' = [pc EXCEPT ![w] = "abort_pop"]
            /\ result' = [result EXCEPT ![w] = "pending"]
            /\ req' = [req EXCEPT ![w] = [NoReq EXCEPT !.key = key, !.upload_id = upload_id]]
    /\ UNCHANGED <<bucketVars, storeVars, genVars, listing, configVars, expiration_cache,
                   notified>>

\* then multiparts.pop(upload_id, None) and the removal of the staging
abort_multipart_upload_pop(w) ==
    LET upload_id == req[w].upload_id
    IN /\ pc[w] = "abort_pop"
       /\ multiparts' = multiparts \ {upload_id}
       /\ mp' = Release(w, upload_id, multiparts \ {upload_id})
       /\ staged' = [staged EXCEPT ![upload_id] = [n \in ReqPartNums |-> NoBytes]]
       /\ Finish(w, "ok")
       /\ UNCHANGED <<versioning_status, objects, tags, storage, wlock, genVars, op, listing,
                      extVars>>

\* ---------------------------------------------------------- specifications
EmptyBucket ==
    /\ objects = [k \in Keys |-> <<>>]
    /\ tags = [ck \in Keys \X Vids |-> NoTag]
    /\ multiparts = {}
    /\ mp = <<>>
    /\ storage = [ck \in Keys \X Vids |-> NoBytes]
    /\ wlock = [ck \in Keys \X Vids |-> NoWorker]
    /\ staged = <<>>
    /\ nextVid = 1
    /\ clock = 0
    /\ pc = [w \in Workers |-> "idle"]
    /\ op = [w \in Workers |-> "none"]
    /\ result = [w \in Workers |-> "none"]
    /\ req = [w \in Workers |-> NoReq]
    /\ listing = NoListing
    /\ ExtInit

\* a new bucket
Init == versioning_status = "unset" /\ EmptyBucket

\* an empty bucket in any versioning state
InitAnyVersioning ==
    versioning_status \in {"unset", "Enabled", "Suspended"} /\ EmptyBucket

NoChecksum == [algorithm |-> FALSE, value |-> <<>>]
Client == 1

\* Spec: the put engine; requests arrive one at a time
Next ==
    \/ \E key \in Keys, if_match \in IfMatchValues, if_none_match \in IfNoneMatchValues,
          tagging \in Taggings :
          put_object_start(Client, key, if_match, if_none_match, tagging)
    \/ put_object_check(Client)
    \/ \E body \in Bodies, content_md5 \in ContentMD5Values, checksum \in ChecksumInputs :
          put_object_write(Client, body, content_md5, checksum)
    \/ put_object_tags(Client)
    \/ \E key \in Keys, version_id \in {NoVid} \cup Vids :
          delete_object(Client, key, version_id)
    \/ \E status \in {"Enabled", "Suspended"} : put_bucket_versioning(Client, status)

Spec == Init /\ [][Next]_vars

\* SpecRace: two workers, each with one put_object carrying If-None-Match: *
NextRace ==
    \E w \in Workers :
        \/ \E tagging \in Taggings :
              op[w] = "none" /\ put_object_start(w, RaceKey, <<>>, <<STAR>>, tagging)
        \/ put_object_check(w)
        \/ \E body \in Bodies : put_object_write(w, body, <<>>, NoChecksum)
        \/ put_object_tags(w)

SpecRace == InitAnyVersioning /\ [][NextRace]_vars

\* SpecMpu: the multipart life cycle; requests arrive one at a time
NextMpu ==
    \/ \E key \in Keys : create_multipart_upload(Client, key, NoTag)
    \/ \E upload_id \in UploadIds, key \in Keys, part_number \in ReqPartNums,
          body \in Bodies :
          upload_part(Client, upload_id, key, part_number, body, <<>>, NoChecksum)
    \/ \E upload_id \in UploadIds, key \in Keys, part_number \in ReqPartNums,
          src_key \in Keys :
          upload_part_copy(Client, upload_id, key, part_number, src_key)
    \/ \E upload_id \in UploadIds, key \in Keys : list_parts(Client, upload_id, key, 0, 0)
    \/ \E upload_id \in UploadIds, key \in Keys, parts \in PartsLists :
          complete_multipart_upload_start(Client, upload_id, key, <<>>, <<>>, parts)
    \/ complete_multipart_upload_commit(Client)
    \/ \E upload_id \in UploadIds, key \in Keys :
          abort_multipart_upload(Client, upload_id, key)

SpecMpu == InitAnyVersioning /\ [][NextMpu]_vars

\* SpecCond: conditional writes; put_object and complete_multipart_upload with every
\* combination of If-Match and If-None-Match, deletes, and a clock that advances
NextCond ==
    \/ \E key \in Keys, if_match \in IfMatchValues, if_none_match \in IfNoneMatchValues,
          tagging \in Taggings :
          put_object_start(Client, key, if_match, if_none_match, tagging)
    \/ put_object_check(Client)
    \/ \E body \in Bodies : put_object_write(Client, body, <<>>, NoChecksum)
    \/ put_object_tags(Client)
    \/ \E key \in Keys : delete_object(Client, key, NoVid)
    \/ \E key \in Keys :
          Len(mp) < MaxCondUploads /\ create_multipart_upload(Client, key, NoTag)
    \/ \E upload_id \in UploadIds, key \in Keys, body \in Bodies :
          upload_part(Client, upload_id, key, 1, body, <<>>, NoChecksum)
    \/ \E upload_id \in UploadIds, key \in Keys, if_match \in IfMatchValues,
          if_none_match \in IfNoneMatchValues, parts \in {<<>>, <<1>>} :
          complete_multipart_upload_start(Client, upload_id, key, if_match,
                                          if_none_match, parts)
    \/ complete_multipart_upload_commit(Client)
    \/ Tick

SpecCond == InitAnyVersioning /\ [][NextCond]_vars

\* SpecRaceMpu: two workers create uploads for one key, upload a part and complete
\* them, every complete_multipart_upload carrying If-None-Match: *
NextRaceMpu ==
    \E w \in Workers :
        \/ create_multipart_upload(w, RaceKey, NoTag)
        \/ \E upload_id \in UploadIds, body \in Bodies :
              upload_part(w, upload_id, RaceKey, 1, body, <<>>, NoChecksum)
        \/ \E upload_id \in UploadIds :
              complete_multipart_upload_start(w, upload_id, RaceKey, <<>>, <<STAR>>, <<1>>)
        \/ complete_multipart_upload_commit(w)

SpecRaceMpu == InitAnyVersioning /\ [][NextRaceMpu]_vars

\* SpecVersioned: the writes that add versions (put_object, copy_object, a multipart
\* upload) with deletes and versioning changes; requests arrive one at a time
NextVersioned ==
    \/ \E key \in Keys : put_object_start(Client, key, <<>>, <<>>, NoTag)
    \/ put_object_check(Client)
    \/ \E body \in Bodies : put_object_write(Client, body, <<>>, NoChecksum)
    \/ put_object_tags(Client)
    \/ \E key \in Keys, src_version_id \in {NoVid} \cup Vids, metadata_replace \in BOOLEAN :
          copy_object(Client, key, key, src_version_id, metadata_replace)
    \/ \E key \in Keys :
          Len(mp) < MaxCondUploads /\ create_multipart_upload(Client, key, NoTag)
    \/ \E upload_id \in UploadIds, key \in Keys, body \in Bodies :
          upload_part(Client, upload_id, key, 1, body, <<>>, NoChecksum)
    \/ \E upload_id \in UploadIds, key \in Keys :
          complete_multipart_upload_start(Client, upload_id, key, <<>>, <<>>, <<1>>)
    \/ complete_multipart_upload_commit(Client)
    \/ \E key \in Keys, version_id \in {NoVid} \cup Vids :
          delete_object(Client, key, version_id)
    \/ \E status \in {"Enabled", "Suspended"} : put_bucket_versioning(Client, status)

SpecVersioned == InitAnyVersioning /\ [][NextVersioned]_vars

\* SpecRead: puts, deletes and versioning changes with the reads that resolve a key
\* or one of its versions, in a bucket without lifecycle rules; requests arrive one
\* at a time
ReadVersionIds == {NoVid} \cup Vids
ReadIfMatchValues == {<<>>, Quoted(MD5Hex(<<1>>))}
NextRead ==
    \/ \E key \in Keys : put_object_start(Client, key, <<>>, <<>>, NoTag)
    \/ put_object_check(Client)
    \/ \E body \in Bodies : put_object_write(Client, body, <<>>, NoChecksum)
    \/ put_object_tags(Client)
    \/ \E key \in Keys, version_id \in ReadVersionIds : delete_object(Client, key, version_id)
    \/ \E key \in Keys, version_id \in ReadVersionIds, if_match \in ReadIfMatchValues :
          get_object_start(Client, key, version_id, if_match)
    \/ get_object_open(Client)
    \/ \E key \in Keys, version_id \in ReadVersionIds, if_match \in ReadIfMatchValues :
          head_object(Client, key, version_id, if_match)
    \/ \E status \in {"Enabled", "Suspended"} : put_bucket_versioning(Client, status)

SpecRead == InitAnyVersioning /\ [][NextRead]_vars

\* SpecBuckets: the bucket is deleted, created again and read by either account,
\* between puts, deletes and changes of its lifecycle rules and versioning by the
\* first; requests arrive one at a time
OthersIdle(w) == \A v \in Workers \ {w} : pc[v] = "idle"
NextBuckets ==
    \/ \E w \in Workers :
          /\ OthersIdle(w)
          /\ \/ \E bucket_region \in Regions : create_bucket_start(w, bucket_region)
             \/ create_bucket_store(w)
             \/ create_bucket_global(w)
             \/ delete_bucket_start(w)
             \/ delete_bucket_pop(w)
             \/ delete_bucket_global(w)
             \/ \E key \in Keys : head_object(w, key, NoVid, <<>>)
    \/ /\ OthersIdle(Client)
       /\ \/ \E key \in Keys : put_object_start(Client, key, <<>>, <<>>, NoTag)
          \/ put_object_check(Client)
          \/ put_object_write(Client, <<1>>, <<>>, NoChecksum)
          \/ put_object_tags(Client)
          \/ \E key \in Keys, version_id \in ReadVersionIds :
                delete_object(Client, key, version_id)
          \/ put_bucket_lifecycle_configuration(Client, 1)
          \/ put_bucket_versioning(Client, "Enabled")

SpecBuckets == Init /\ [][NextBuckets]_vars

\* SpecRaceBuckets: the two accounts create and delete the one bucket name
\* concurrently, starting without a bucket
InitNoBucket ==
    /\ versioning_status = "unset"
    /\ objects = [k \in Keys |-> <<>>]
    /\ tags = [ck \in Keys \X Vids |-> NoTag]
    /\ multiparts = {}
    /\ mp = <<>>
    /\ storage = [ck \in Keys \X Vids |-> NoBytes]
    /\ wlock = [ck \in Keys \X Vids |-> NoWorker]
    /\ staged = <<>>
    /\ nextVid = 1
    /\ clock = 0
    /\ pc = [w \in Workers |-> "idle"]
    /\ op = [w \in Workers |-> "none"]
    /\ result = [w \in Workers |-> "none"]
    /\ req = [w \in Workers |-> NoReq]
    /\ listing = NoListing
    /\ buckets = [a \in Accounts |-> NoBucket]
    /\ global_bucket_map = NoAccount
    /\ lifecycle_rules = NoRules
    /\ expiration_cache = [k \in Keys |-> NoHeader]
    /\ notification_configuration = FALSE
    /\ notified = NoNotification
    /\ response = [w \in Workers |-> NoResponse]
    /\ object_lock_enabled = FALSE
    /\ bucket_tags = [a \in Accounts |-> NoTag]

NextRaceBuckets ==
    \E w \in Workers :
       \/ \E bucket_region \in Regions : create_bucket_start(w, bucket_region)
       \/ create_bucket_store(w)
       \/ create_bucket_global(w)
       \/ delete_bucket_start(w)
       \/ delete_bucket_pop(w)
       \/ delete_bucket_global(w)

SpecRaceBuckets == InitNoBucket /\ [][NextRaceBuckets]_vars

\* ----------------------------------------------------------------- listing
\* Keys of the listing specifications are strings: sequences of character codes,
\* compared as Python compares str.
ListKeys == {<<97>>, <<97, 58>>, <<97, 47, 49>>, <<97, 47, 50>>, <<98>>}
ListPrefixes == {<<>>, <<97>>}
ListDelimiters == {<<>>, <<47>>}

RECURSIVE StrLess(_, _)
StrLess(a, b) ==
    IF b = <<>> THEN FALSE
    ELSE IF a = <<>> THEN TRUE
    ELSE IF Head(a) # Head(b) THEN Head(a) < Head(b)
    ELSE StrLess(Tail(a), Tail(b))
StrLeq(a, b) == a = b \/ StrLess(a, b)

\* key.startswith(prefix)
StartsWith(s, p) == Len(p) <= Len(s) /\ SubSeq(s, 1, Len(p)) = p
\* key.removeprefix(prefix)
RemovePrefix(s, p) == IF StartsWith(s, p) THEN SubSeq(s, Len(p) + 1, Len(s)) ELSE s
\* the positions at which delimiter occurs in s
Occurrences(s, d) ==
    {i \in 1..(Len(s) - Len(d) + 1) : SubSeq(s, i, i + Len(d) - 1) = d}
\* delimiter in s
Contains(s, d) == Occurrences(s, d) # {}
\* s.partition(delimiter)[0]
PreDelimiter(s, d) ==
    SubSeq(s, 1, (CHOOSE i \in Occurrences(s, d) : \A j \in Occurrences(s, d) : i <= j) - 1)

\* urlparse.quote: letters, digits, "_.-~" and "/" stay, any other character becomes
\* "%" and its two upper-case hex digits
HexDigit(n) == IF n < 10 THEN 48 + n ELSE 55 + n
QuoteChar(c) ==
    IF \/ (c >= 65 /\ c <= 90) \/ (c >= 97 /\ c <= 122) \/ (c >= 48 /\ c <= 57)
       \/ c \in {95, 46, 45, 126, 47}
    THEN <<c>>
    ELSE <<37, HexDigit(c \div 16), HexDigit(c % 16)>>
RECURSIVE quote(_)
quote(s) == IF s = <<>> THEN <<>> ELSE QuoteChar(Head(s)) \o quote(Tail(s))

\* base64.urlsafe_b64encode / urlsafe_b64decode of a key: a re-encoding of the characters
urlsafe_b64encode(s) == [i \in 1..Len(s) |-> s[i] + 2000]
urlsafe_b64decode(t) == [i \in 1..Len(t) |-> t[i] - 2000]

\* sorted(...) of a set of strings
RECURSIVE SortedStrings(_)
SortedStrings(S) ==
    IF S = {} THEN <<>>
    ELSE LET m == CHOOSE x \in S : \A y \in S : StrLeq(x, y)
         IN <<m>> \o SortedStrings(S \ {m})

\* the keys of s3_bucket.objects.values(), sorted by key
AllKeys(store) == SortedStrings({k \in DOMAIN store : store[k] # <<>>})

\* a faulty variant: the delimiter is looked for in the whole key, prefix included
PrefixIncludingDelimiterOfWholeKey(key, prefix, delimiter) ==
    IF delimiter # <<>> /\ Contains(key, delimiter)
    THEN prefix \o PreDelimiter(key, delimiter) \o delimiter
    ELSE <<>>

\* prefix_including_delimiter of a key, <<>> when it has none
PrefixIncludingDelimiter(key, prefix, delimiter) ==
    IF delimiter # <<>> /\ Contains(RemovePrefix(key, prefix), delimiter)
    THEN prefix \o PreDelimiter(RemovePrefix(key, prefix), delimiter) \o delimiter
    ELSE <<>>

\* a listing request as the handler sees it after its defaults and encodings
ListRequest(prefix, delimiter, max_keys, encoding_type, marker, id_marker) ==
    [prefix |-> IF encoding_type THEN quote(prefix) ELSE prefix,
     delimiter |-> IF encoding_type THEN quote(delimiter) ELSE delimiter,
     max_keys |-> IF max_keys = 0 THEN 1000 ELSE max_keys,
     encoding_type |-> encoding_type, marker |-> marker, id_marker |-> id_marker]

\* a page: the entries in response order, the common prefixes, and the next markers
ListPage(contents, common_prefixes, is_truncated, next_marker, next_id_marker) ==
    [contents |-> contents, common_prefixes |-> SortedStrings(common_prefixes),
     is_truncated |-> is_truncated, next_marker |-> next_marker,
     next_id_marker |-> next_id_marker]


\* the default of max_keys and max_uploads
DefaultMaxKeys == 1000

\* the loop of list_objects over the keys left, from the locals in acc
RECURSIVE list_objects_loop(_, _, _, _)
list_objects_loop(rq, last_key, rest, acc) ==
    IF rest = <<>> THEN acc
    ELSE LET key == IF rq.encoding_type THEN quote(Head(rest)) ELSE Head(rest)
             pid == PrefixIncludingDelimiter(key, rq.prefix, rq.delimiter)
             skip == \/ rq.marker # <<>> /\ StrLeq(key, rq.marker)
                     \/ rq.prefix # <<>> /\ ~StartsWith(key, rq.prefix)
                     \/ /\ pid # <<>>
                        /\ \/ pid \in acc.common_prefixes
                           \/ rq.marker # <<>> /\ StartsWith(rq.marker, pid)
             added == IF pid # <<>>
                      THEN [acc EXCEPT !.common_prefixes = @ \cup {pid}, !.count = @ + 1]
                      ELSE [acc EXCEPT !.contents = Append(@, key), !.count = @ + 1]
         IN IF skip THEN list_objects_loop(rq, last_key, Tail(rest), acc)
            ELSE IF added.count >= rq.max_keys /\ last_key # Head(rest)
            THEN [added EXCEPT !.is_truncated = TRUE,
                               !.next_marker =
                                  IF pid # <<>> THEN pid
                                  ELSE added.contents[Len(added.contents)]]
            ELSE list_objects_loop(rq, last_key, Tail(rest), added)

NoPage ==
    [contents |-> <<>>, common_prefixes |-> {}, count |-> 0, is_truncated |-> FALSE,
     next_marker |-> <<>>, next_id_marker |-> NoVid, found |-> FALSE]

\* the response of list_objects; NextMarker is only returned with a delimiter
list_objects_page(store, prefix, delimiter, max_keys, encoding_type, marker) ==
    LET rq == ListRequest(prefix, delimiter, max_keys, encoding_type, marker, NoVid)
        all_keys == AllKeys(store)
        last_key == IF all_keys = <<>> THEN <<>> ELSE all_keys[Len(all_keys)]
        out == list_objects_loop(rq, last_key, all_keys, NoPage)
    IN ListPage(out.contents, out.common_prefixes, out.is_truncated,
                IF rq.delimiter # <<>> THEN out.next_marker ELSE <<>>, NoVid)

\* a faulty variant: the key the token names is skipped as well
before_or_at_continuation_token(key, continuation_token) ==
    StrLeq(key, urlsafe_b64decode(continuation_token))

\* the keys that come before the decoded continuation token are skipped
before_continuation_token(key, continuation_token) ==
    StrLess(key, urlsafe_b64decode(continuation_token))

\* the loop of list_objects_v2
RECURSIVE list_objects_v2_loop(_, _, _)
list_objects_v2_loop(rq, rest, acc) ==
    IF rest = <<>> THEN acc
    ELSE LET key == IF rq.encoding_type THEN quote(Head(rest)) ELSE Head(rest)
             pid == PrefixIncludingDelimiter(key, rq.prefix, rq.delimiter)
             skip == \/ rq.marker # <<>> /\ before_continuation_token(key, rq.marker)
                     \/ rq.prefix # <<>> /\ ~StartsWith(key, rq.prefix)
                     \/ pid # <<>> /\ pid \in acc.common_prefixes
         IN IF skip THEN list_objects_v2_loop(rq, Tail(rest), acc)
            ELSE IF acc.count >= rq.max_keys
            THEN [acc EXCEPT !.is_truncated = TRUE,
                             !.next_marker = urlsafe_b64encode(Head(rest))]
            ELSE list_objects_v2_loop(rq, Tail(rest),
                    IF pid # <<>>
                    THEN [acc EXCEPT !.common_prefixes = @ \cup {pid}, !.count = @ + 1]
                    ELSE [acc EXCEPT !.contents = Append(@, key), !.count = @ + 1])

\* the response of list_objects_v2, start_after not given
list_objects_v2_page(store, prefix, delimiter, max_keys, encoding_type, continuation_token) ==
    LET rq == ListRequest(prefix, delimiter, max_keys, encoding_type,
                          continuation_token, NoVid)
        out == list_objects_v2_loop(rq, AllKeys(store), NoPage)
    IN ListPage(out.contents, out.common_prefixes, out.is_truncated, out.next_marker, NoVid)

\* the client's pagination: a request without marker starts it, the next ones extend it
Paginate(api, prefix, delimiter, max_keys, encoding_type, first, page) ==
    IF first
    THEN [api |-> api, prefix |-> prefix, delimiter |-> delimiter, max_keys |-> max_keys,
          encoding_type |-> encoding_type, pages |-> <<page>>]
    ELSE [listing EXCEPT !.pages = Append(@, page)]

LastPage == listing.pages[Len(listing.pages)]

\* the marker a client of list_objects sends next: NextMarker, else the last key returned
NextMarkerOf(page) ==
    IF page.next_marker # <<>> THEN page.next_marker
    ELSE IF page.contents # <<>> THEN page.contents[Len(page.contents)]
    ELSE <<>>

list_objects(w, prefix, delimiter, max_keys, encoding_type, marker) ==
    /\ pc[w] = "idle"
    /\ op' = [op EXCEPT ![w] = "list_objects"]
    /\ response' = [response EXCEPT ![w] = NoResponse]
    /\ result' = [result EXCEPT ![w] = "ok"]
    /\ listing' = Paginate("list_objects", prefix, delimiter, max_keys, encoding_type,
                           marker = <<>>,
                           list_objects_page(objects, prefix, delimiter, max_keys,
                                             encoding_type, marker))
    /\ UNCHANGED <<bucketVars, storeVars, genVars, pc, req, configVars, expiration_cache, notified>>

list_objects_v2(w, prefix, delimiter, max_keys, encoding_type, continuation_token) ==
    /\ pc[w] = "idle"
    /\ op' = [op EXCEPT ![w] = "list_objects_v2"]
    /\ response' = [response EXCEPT ![w] = NoResponse]
    /\ result' = [result EXCEPT ![w] = "ok"]
    /\ listing' = Paginate("list_objects_v2", prefix, delimiter, max_keys, encoding_type,
                           continuation_token = <<>>,
                           list_objects_v2_page(objects, prefix, delimiter, max_keys,
                                                encoding_type, continuation_token))
    /\ UNCHANGED <<bucketVars, storeVars, genVars, pc, req, configVars, expiration_cache, notified>>


\* SpecList: a client pages through list_objects or list_objects_v2 of a bucket that
\* holds any subset of ListKeys and does not change
MaxKeysInputs == 0..MaxListKeys

IdleWorkers ==
    /\ pc = [w \in Workers |-> "idle"]
    /\ op = [w \in Workers |-> "none"]
    /\ result = [w \in Workers |-> "none"]
    /\ req = [w \in Workers |-> NoReq]
    /\ listing = NoListing
    /\ ExtInit

InitList ==
    /\ versioning_status = "unset"
    /\ \E present \in SUBSET ListKeys :
          /\ objects = [k \in ListKeys |->
                          IF k \in present THEN <<S3Object(NoVid, MD5Hex(<<1>>), 0)>>
                          ELSE <<>>]
          /\ storage = [ck \in ListKeys \X Vids |->
                          IF ck[1] \in present /\ ck[2] = NullVid THEN <<1>> ELSE NoBytes]
    /\ tags = [ck \in ListKeys \X Vids |-> NoTag]
    /\ wlock = [ck \in ListKeys \X Vids |-> NoWorker]
    /\ multiparts = {}
    /\ mp = <<>>
    /\ staged = <<>>
    /\ nextVid = 1
    /\ clock = 0
    /\ IdleWorkers

NextList ==
    \/ \E prefix \in ListPrefixes, delimiter \in ListDelimiters, max_keys \in MaxKeysInputs,
          encoding_type \in BOOLEAN :
          /\ listing = NoListing
          /\ list_objects(Client, prefix, delimiter, max_keys, encoding_type, <<>>)
    \/ /\ listing.api = "list_objects"
       /\ LastPage.is_truncated
       /\ NextMarkerOf(LastPage) # <<>>
       /\ list_objects(Client, listing.prefix, listing.delimiter, listing.max_keys,
                       listing.encoding_type, NextMarkerOf(LastPage))
    \/ \E prefix \in ListPrefixes, delimiter \in ListDelimiters, max_keys \in MaxKeysInputs,
          encoding_type \in BOOLEAN :
          /\ listing = NoListing
          /\ list_objects_v2(Client, prefix, delimiter, max_keys, encoding_type, <<>>)
    \/ /\ listing.api = "list_objects_v2"
       /\ LastPage.is_truncated
       /\ list_objects_v2(Client, listing.prefix, listing.delimiter, listing.max_keys,
                          listing.encoding_type, LastPage.next_marker)

SpecList == InitList /\ [][NextList]_vars


\* ---------------------------------------------------------- list_object_versions
\* sort(key=-last_modified) of the versions of one key: stable, newest first
RECURSIVE NewestFirst(_)
NewestFirst(versions) ==
    IF versions = <<>> THEN <<>>
    ELSE LET m == CHOOSE i \in DOMAIN versions : \A j \in DOMAIN versions :
                     \/ versions[j].last_modified < versions[i].last_modified
                     \/ versions[j].last_modified = versions[i].last_modified /\ i <= j
         IN <<versions[m]>>
               \o NewestFirst([i \in 1..(Len(versions) - 1) |->
                                  IF i < m THEN versions[i] ELSE versions[i + 1]])

\* the versions of one key as the listing sees them: key, is_current and the record
KeyVersions(store, key) ==
    NewestFirst([i \in 1..Len(store[key]) |->
        [key |-> key, version_id |-> store[key][i].version_id,
         is_delete_marker |-> store[key][i].is_delete_marker,
         last_modified |-> store[key][i].last_modified, is_current |-> i = 1]])

\* all_versions: objects.values(with_versions=True) sorted by key, then newest first
RECURSIVE VersionsOfKeys(_, _)
VersionsOfKeys(store, keys) ==
    IF keys = <<>> THEN <<>>
    ELSE KeyVersions(store, Head(keys)) \o VersionsOfKeys(store, Tail(keys))
AllVersions(store) == VersionsOfKeys(store, AllKeys(store))

\* a faulty variant: the comparison is the wrong way round
is_version_newer_than_other(version_id, other) == version_id > other

\* version ids of an Enabled bucket sort by the time they were generated
is_version_older_than_other(version_id, other) == version_id < other

\* an entry of Versions or DeleteMarkers
VersionEntry(key, version) ==
    [key |-> key,
     version_id |-> IF version.version_id = NoVid THEN NullVid ELSE version.version_id,
     is_latest |-> version.is_current, is_delete_marker |-> version.is_delete_marker]

RECURSIVE list_object_versions_loop(_, _, _, _)
list_object_versions_loop(rq, last_version, rest, acc) ==
    IF rest = <<>> THEN acc
    ELSE LET version == Head(rest)
             key == IF rq.encoding_type THEN quote(version.key) ELSE version.key
             at_marker == rq.marker # <<>> /\ key = rq.marker
             older == /\ at_marker
                      /\ rq.id_marker # NoVid
                      /\ version.version_id # rq.id_marker
                      /\ is_version_older_than_other(version.version_id, rq.id_marker)
             found == \/ acc.found
                      \/ at_marker /\ version.version_id = rq.id_marker
                      \/ older
             before == \/ rq.marker # <<>> /\ StrLess(key, rq.marker)
                       \/ /\ at_marker
                          /\ \/ rq.id_marker = NoVid
                             \/ version.version_id = rq.id_marker
                             \/ ~older /\ ~acc.found
             pid == PrefixIncludingDelimiter(key, rq.prefix, rq.delimiter)
             skip == \/ rq.prefix # <<>> /\ ~StartsWith(key, rq.prefix)
                     \/ /\ pid # <<>>
                        /\ \/ pid \in acc.common_prefixes
                           \/ rq.marker # <<>> /\ StartsWith(rq.marker, pid)
             seen == [acc EXCEPT !.found = IF rq.marker # <<>> /\ rq.id_marker # NoVid
                                           THEN found ELSE @]
             added == IF pid # <<>>
                      THEN [seen EXCEPT !.common_prefixes = @ \cup {pid}, !.count = @ + 1]
                      ELSE [seen EXCEPT !.contents = Append(@, VersionEntry(key, version)),
                                        !.count = @ + 1]
         IN IF before \/ skip
            THEN list_object_versions_loop(rq, last_version, Tail(rest), seen)
            ELSE IF /\ added.count >= rq.max_keys
                    /\ last_version.version_id # version.version_id
            THEN [added EXCEPT !.is_truncated = TRUE,
                               !.next_marker = IF pid # <<>> THEN pid ELSE version.key,
                               !.next_id_marker =
                                  IF pid # <<>> THEN NoVid ELSE version.version_id]
            ELSE list_object_versions_loop(rq, last_version, Tail(rest), added)

list_object_versions_page(store, prefix, delimiter, max_keys, encoding_type, key_marker, version_id_marker) ==
    LET rq == ListRequest(prefix, delimiter, max_keys, encoding_type,
                          key_marker, version_id_marker)
        all_versions == AllVersions(store)
        last_version == IF all_versions = <<>> THEN <<>>
                        ELSE all_versions[Len(all_versions)]
        out == list_object_versions_loop(rq, last_version, all_versions, NoPage)
    IN ListPage(out.contents, out.common_prefixes, out.is_truncated,
                out.next_marker, out.next_id_marker)

list_object_versions(w, prefix, delimiter, max_keys, encoding_type, key_marker, version_id_marker) ==
    /\ pc[w] = "idle"
    /\ op' = [op EXCEPT ![w] = "list_object_versions"]
    /\ response' = [response EXCEPT ![w] = NoResponse]
    /\ IF version_id_marker # NoVid /\ key_marker = <<>>
       THEN /\ result' = [result EXCEPT ![w] = "InvalidArgument"]
            /\ UNCHANGED listing
       ELSE /\ result' = [result EXCEPT ![w] = "ok"]
            /\ listing' = Paginate("list_object_versions", prefix, delimiter, max_keys,
                              encoding_type, key_marker = <<>>,
                              list_object_versions_page(objects, prefix, delimiter,
                                  max_keys, encoding_type, key_marker, version_id_marker))
    /\ UNCHANGED <<bucketVars, storeVars, genVars, pc, req, configVars, expiration_cache, notified>>


\* SpecVersions: a client pages through list_object_versions while versions are deleted
\* between its calls. The bucket is unversioned with any subset of VersionKeys, or
\* Enabled from the start with any history of up to MaxVersions puts and deletes.
VersionKeys == {<<97>>, <<97, 47, 49>>, <<98>>}
Histories ==
    UNION {[1..n -> VersionKeys \X {"put", "delete"}] : n \in 0..MaxVersions}
\* the versions of key k after the history h, newest first; the i-th write got the id i
HistoryVersions(h, k) ==
    LET writes == SelectSeq([i \in 1..Len(h) |-> i], LAMBDA i : h[i][1] = k)
    IN [j \in 1..Len(writes) |->
          LET i == writes[Len(writes) + 1 - j]
          IN IF h[i][2] = "put" THEN S3Object(i, MD5Hex(<<1>>), i \div 2)
             ELSE S3DeleteMarker(i, i \div 2)]

InitVersions ==
    /\ \/ /\ versioning_status = "unset"
          /\ \E present \in SUBSET VersionKeys :
                /\ objects = [k \in ListKeys |->
                                IF k \in present THEN <<S3Object(NoVid, MD5Hex(<<1>>), 0)>>
                                ELSE <<>>]
                /\ storage = [ck \in ListKeys \X (NullVid..MaxVersions) |->
                                IF ck[1] \in present /\ ck[2] = NullVid THEN <<1>>
                                ELSE NoBytes]
          /\ nextVid = 1
          /\ clock = 0
       \/ /\ versioning_status = "Enabled"
          /\ \E h \in Histories :
                /\ objects = [k \in ListKeys |-> HistoryVersions(h, k)]
                /\ storage = [ck \in ListKeys \X (NullVid..MaxVersions) |->
                                IF \E i \in 1..Len(h) : h[i] = <<ck[1], "put">> /\ ck[2] = i
                                THEN <<1>> ELSE NoBytes]
                /\ nextVid = Len(h) + 1
                /\ clock = Len(h) \div 2
    /\ tags = [ck \in ListKeys \X (NullVid..MaxVersions) |-> NoTag]
    /\ wlock = [ck \in ListKeys \X (NullVid..MaxVersions) |-> NoWorker]
    /\ multiparts = {}
    /\ mp = <<>>
    /\ staged = <<>>
    /\ IdleWorkers

NextVersions ==
    \/ \E prefix \in ListPrefixes, delimiter \in ListDelimiters, max_keys \in MaxKeysInputs :
          /\ listing = NoListing
          /\ list_object_versions(Client, prefix, delimiter, max_keys, FALSE, <<>>, NoVid)
    \/ /\ listing.api = "list_object_versions"
       /\ LastPage.is_truncated
       /\ LastPage.next_marker # <<>>
       /\ list_object_versions(Client, listing.prefix, listing.delimiter, listing.max_keys,
                               listing.encoding_type, LastPage.next_marker,
                               LastPage.next_id_marker)
    \/ \E key \in VersionKeys, version_id \in 1..MaxVersions :
          /\ listing.api = "list_object_versions"
          /\ LastPage.is_truncated
          /\ HasVersion(objects, key, version_id)
          /\ delete_object(Client, key, version_id)

SpecVersions == InitVersions /\ [][NextVersions]_vars


\* -------------------------------------------------------- list_multipart_uploads
\* all_multiparts: the registered uploads sorted by key, then by initiated (stable)
RECURSIVE SortedUploads(_)
SortedUploads(ids) ==
    IF ids = {} THEN <<>>
    ELSE LET m == CHOOSE u \in ids : \A v \in ids :
                     \/ StrLess(mp[u].key, mp[v].key)
                     \/ /\ mp[u].key = mp[v].key
                        /\ \/ mp[u].initiated < mp[v].initiated
                           \/ mp[u].initiated = mp[v].initiated /\ u <= v
         IN <<m>> \o SortedUploads(ids \ {m})

RECURSIVE list_multipart_uploads_loop(_, _, _, _)
list_multipart_uploads_loop(rq, last_multipart, rest, acc) ==
    IF rest = <<>> THEN acc
    ELSE LET multipart == Head(rest)
             key == IF rq.encoding_type THEN quote(mp[multipart].key)
                    ELSE mp[multipart].key
             at_marker == rq.marker # <<>> /\ key = rq.marker
             before == \/ rq.marker # <<>> /\ StrLess(key, rq.marker)
                       \/ /\ at_marker
                          /\ \/ rq.id_marker = NoUpload
                             \/ multipart = rq.id_marker
                             \/ ~acc.found
             pid == PrefixIncludingDelimiter(key, rq.prefix, rq.delimiter)
             skip == \/ rq.prefix # <<>> /\ ~StartsWith(key, rq.prefix)
                     \/ /\ pid # <<>>
                        /\ \/ pid \in acc.common_prefixes
                           \/ rq.marker # <<>> /\ StartsWith(rq.marker, pid)
             seen == [acc EXCEPT !.found = @ \/ (/\ at_marker
                                                 /\ rq.id_marker # NoUpload
                                                 /\ multipart = rq.id_marker)]
             added == IF pid # <<>>
                      THEN [seen EXCEPT !.common_prefixes = @ \cup {pid}, !.count = @ + 1]
                      ELSE [seen EXCEPT !.contents =
                                           Append(@, [key |-> mp[multipart].key,
                                                      upload_id |-> multipart]),
                                        !.count = @ + 1]
         IN IF before \/ skip
            THEN list_multipart_uploads_loop(rq, last_multipart, Tail(rest), seen)
            ELSE IF added.count >= rq.max_keys /\ last_multipart # multipart
            THEN [added EXCEPT !.is_truncated = TRUE]
            ELSE list_multipart_uploads_loop(rq, last_multipart, Tail(rest), added)

\* the response: the next markers name the last upload returned, if any
list_multipart_uploads_page(prefix, delimiter, max_uploads, encoding_type, key_marker, upload_id_marker) ==
    LET rq == ListRequest(prefix, delimiter, max_uploads, encoding_type,
                          key_marker, upload_id_marker)
        all_multiparts == SortedUploads(multiparts)
        last_multipart == IF all_multiparts = <<>> THEN NoUpload
                          ELSE all_multiparts[Len(all_multiparts)]
        out == list_multipart_uploads_loop(rq, last_multipart, all_multiparts,
                                           [NoPage EXCEPT !.next_id_marker = NoUpload])
        uploads == out.contents
    IN ListPage(uploads, out.common_prefixes, out.is_truncated,
                IF uploads # <<>> THEN uploads[Len(uploads)].key ELSE <<>>,
                IF uploads # <<>> THEN uploads[Len(uploads)].upload_id ELSE NoUpload)

list_multipart_uploads(w, prefix, delimiter, max_uploads, encoding_type, key_marker, upload_id_marker) ==
    /\ pc[w] = "idle"
    /\ op' = [op EXCEPT ![w] = "list_multipart_uploads"]
    /\ response' = [response EXCEPT ![w] = NoResponse]
    /\ IF /\ key_marker # <<>>
          /\ upload_id_marker # NoUpload
          /\ \/ upload_id_marker \notin multiparts
             \/ key_marker # (IF encoding_type THEN quote(mp[upload_id_marker].key)
                              ELSE mp[upload_id_marker].key)
       THEN /\ result' = [result EXCEPT ![w] = "InvalidArgument"]
            /\ UNCHANGED listing
       ELSE /\ result' = [result EXCEPT ![w] = "ok"]
            /\ listing' = Paginate("list_multipart_uploads", prefix, delimiter, max_uploads,
                              encoding_type, key_marker = <<>>,
                              list_multipart_uploads_page(prefix, delimiter, max_uploads,
                                  encoding_type, key_marker, upload_id_marker))
    /\ UNCHANGED <<bucketVars, storeVars, genVars, pc, req, configVars, expiration_cache, notified>>

\* SpecUploads: uploads are created in an empty bucket, then a client pages through
\* list_multipart_uploads
InitUploads ==
    /\ versioning_status = "unset"
    /\ objects = [k \in ListKeys |-> <<>>]
    /\ tags = [ck \in ListKeys \X Vids |-> NoTag]
    /\ storage = [ck \in ListKeys \X Vids |-> NoBytes]
    /\ wlock = [ck \in ListKeys \X Vids |-> NoWorker]
    /\ multiparts = {}
    /\ mp = <<>>
    /\ staged = <<>>
    /\ nextVid = 1
    /\ clock = 0
    /\ IdleWorkers

NextUploads ==
    \/ \E key \in ListKeys :
          listing = NoListing /\ create_multipart_upload(Client, key, NoTag)
    \/ listing = NoListing /\ Tick
    \/ \E prefix \in ListPrefixes, delimiter \in ListDelimiters,
          max_uploads \in MaxKeysInputs :
          /\ listing = NoListing
          /\ list_multipart_uploads(Client, prefix, delimiter, max_uploads, FALSE,
                                    <<>>, NoUpload)
    \/ /\ listing.api = "list_multipart_uploads"
       /\ LastPage.is_truncated
       /\ LastPage.next_marker # <<>>
       /\ list_multipart_uploads(Client, listing.prefix, listing.delimiter,
                                 listing.max_keys, listing.encoding_type,
                                 LastPage.next_marker, LastPage.next_id_marker)

SpecUploads == InitUploads /\ [][NextUploads]_vars


\* ------------------------------------------------------------------ claims
\* C1 (as stated; under SpecRace): once the two concurrent put_object requests that carry
\* If-None-Match: * on one key without a live object have both returned, exactly one of
\* them succeeded and the other failed with PreconditionFailed, in every versioning state.
C1_ExactlyOnePutSucceeds ==
    (\A w \in Workers : op[w] = "put_object" /\ pc[w] = "idle") =>
        \E w \in Workers :
            /\ result[w] = "ok"
            /\ \A v \in Workers \ {w} : result[v] = "PreconditionFailed"

\* C2 (as stated; under Spec): a put_object that fails once it is at the writer guard
\* leaves the key store unchanged, and every committed Object record still has exactly
\* the bytes it was committed with.
C2_FailedPutKeepsCommittedBytes ==
    [][\A w \in Workers :
         (pc[w] \in {"put_check", "put_write"} /\ pc'[w] = "idle") =>
            /\ objects' = objects
            /\ \A k \in Keys : \A i \in 1..Len(objects[k]) :
                  ~objects[k][i].is_delete_marker =>
                     storage'[CompositeKey(k, objects[k][i].version_id)]
                        = storage[CompositeKey(k, objects[k][i].version_id)]]_vars

\* C3 (as stated; under SpecRaceMpu): of two complete_multipart_upload requests for two
\* uploads of one key, both carrying If-None-Match: * while the key has no live object,
\* at most one commits an object.
C3_AtMostOneCompleteCommits ==
    ~(\A w \in Workers :
        op[w] = "complete_multipart_upload" /\ pc[w] = "idle" /\ result[w] = "ok")

\* C4 (under Spec): a put_object carrying If-None-Match: * fails with PreconditionFailed
\* exactly when, at the check, the key's current version exists and is no delete marker;
\* on that failure the key store and the tag table are unchanged; otherwise the request
\* goes on to write, and unless the body fails its integrity validation the new object
\* becomes the key's current version and the request returns successfully.
C4_PutIfNoneMatch ==
    [][\A w \in Workers :
         LET k == req[w].key
             live == objects[k] # <<>> /\ ~Head(objects[k]).is_delete_marker
             ck == <<k, IF req[w].version_id = NoVid THEN NullVid ELSE req[w].version_id>>
         IN req[w].if_none_match = <<STAR>> =>
              /\ (pc[w] = "put_check" /\ pc'[w] # "put_check") =>
                    /\ (result'[w] = "PreconditionFailed") <=> live
                    /\ live => pc'[w] = "idle" /\ objects' = objects /\ tags' = tags
                    /\ ~live => pc'[w] = "put_write" /\ result'[w] = "pending"
              /\ (pc[w] = "put_write" /\ pc'[w] # "put_write") =>
                    \/ pc'[w] = "idle" /\ result'[w] \in {"InvalidRequest", "BadDigest"}
                    \/ /\ pc'[w] = "put_tags"
                       /\ Head(objects'[k]).version_id = req[w].version_id
                       /\ ~Head(objects'[k]).is_delete_marker
                       /\ Head(objects'[k]).etag = MD5Hex(storage'[ck])
              /\ (pc[w] = "put_tags" /\ pc'[w] # "put_tags") =>
                    pc'[w] = "idle" /\ result'[w] = "ok" /\ objects' = objects]_vars

\* C4 witness: a put_object with If-None-Match: * has passed its check on a key whose
\* current version is a delete marker.
C4_Witness ==
    /\ pc[Client] = "put_write"
    /\ req[Client].if_none_match = <<STAR>>
    /\ objects[req[Client].key] # <<>>
    /\ Head(objects[req[Client].key]).is_delete_marker

\* C5 (under Spec): a put_object carrying If-Match: <etag> fails with NoSuchKey when the
\* key has no current version or a delete marker, fails with PreconditionFailed when the
\* current object's etag differs from the header value with its double quotes stripped,
\* and otherwise goes on to write and commit the new object; on either failure the key
\* store is unchanged.
C5_PutIfMatch ==
    [][\A w \in Workers :
         LET k == req[w].key
             h == req[w].if_match
             none == objects[k] = <<>> \/ Head(objects[k]).is_delete_marker
             same == Head(objects[k]).etag = h \/ Quoted(Head(objects[k]).etag) = h
         IN h # <<>> =>
              /\ (pc[w] = "put_check" /\ pc'[w] # "put_check") =>
                    /\ none => /\ result'[w] = "NoSuchKey"
                               /\ pc'[w] = "idle" /\ objects' = objects
                    /\ (~none /\ ~same) => /\ result'[w] = "PreconditionFailed"
                                           /\ pc'[w] = "idle" /\ objects' = objects
                    /\ (~none /\ same) => pc'[w] = "put_write" /\ result'[w] = "pending"
              /\ (pc[w] = "put_write" /\ pc'[w] # "put_write") =>
                    \/ pc'[w] = "idle" /\ result'[w] \in {"InvalidRequest", "BadDigest"}
                    \/ /\ pc'[w] = "put_tags"
                       /\ Head(objects'[k]).version_id = req[w].version_id
                       /\ ~Head(objects'[k]).is_delete_marker]_vars

\* C5 witness: a put_object whose If-Match value is the quoted etag of the current
\* object has passed its check.
C5_Witness ==
    /\ pc[Client] = "put_write"
    /\ req[Client].if_match = Quoted(MD5Hex(<<1>>))
    /\ Head(objects[req[Client].key]).etag = MD5Hex(<<1>>)

\* C6 (as stated; under SpecCond): a complete_multipart_upload of an existing upload
\* with supported conditional headers fails with ConditionalRequestConflict exactly when
\* If-Match is supplied, the current object exists with a matching etag and was modified
\* after the upload was initiated; with only If-None-Match: * it fails with
\* PreconditionFailed when a live object exists and otherwise passes the check.
C6_ConflictOnlyFromIfMatch ==
    [][(pc[Client] = "idle" /\ op'[Client] = "complete_multipart_upload") =>
       \A upload_id \in UploadIds, key \in Keys, if_match \in IfMatchValues,
          if_none_match \in IfNoneMatchValues, parts \in {<<>>, <<1>>} :
         LET live == objects[key] # <<>> /\ ~Head(objects[key]).is_delete_marker
             cur == Head(objects[key])
             same == cur.etag = if_match \/ Quoted(cur.etag) = if_match
             supported == \/ if_match = <<>> /\ if_none_match \in {<<>>, <<STAR>>}
                          \/ if_none_match = <<>> /\ if_match # <<STAR>>
         IN (/\ upload_id \in multiparts /\ mp[upload_id].key = key
             /\ supported
             /\ complete_multipart_upload_start(Client, upload_id, key, if_match,
                                                if_none_match, parts)) =>
               /\ (result'[Client] = "ConditionalRequestConflict") <=>
                     (/\ if_match # <<>> /\ live /\ same
                      /\ mp[upload_id].initiated < cur.last_modified)
               /\ if_none_match = <<STAR>> =>
                     IF live THEN result'[Client] = "PreconditionFailed"
                     ELSE result'[Client] \in {"pending", "InvalidRequest", "InvalidPart"}]_vars

\* C6 (amended; under SpecCond): a complete_multipart_upload of an existing upload with
\* supported conditional headers fails with ConditionalRequestConflict exactly when
\* either If-Match is supplied, the current object exists with a matching etag and was
\* modified after the upload was initiated, or If-None-Match: * is supplied, no live
\* object exists now and one existed when the upload was created; with only
\* If-None-Match: * it fails with PreconditionFailed exactly when a live object exists,
\* and passes the check when none exists now and none existed at creation.
C6_CompleteConflict ==
    [][(pc[Client] = "idle" /\ op'[Client] = "complete_multipart_upload") =>
       \A upload_id \in UploadIds, key \in Keys, if_match \in IfMatchValues,
          if_none_match \in IfNoneMatchValues, parts \in {<<>>, <<1>>} :
         LET live == objects[key] # <<>> /\ ~Head(objects[key]).is_delete_marker
             cur == Head(objects[key])
             same == cur.etag = if_match \/ Quoted(cur.etag) = if_match
             supported == \/ if_match = <<>> /\ if_none_match \in {<<>>, <<STAR>>}
                          \/ if_none_match = <<>> /\ if_match # <<STAR>>
         IN (/\ upload_id \in multiparts /\ mp[upload_id].key = key
             /\ supported
             /\ complete_multipart_upload_start(Client, upload_id, key, if_match,
                                                if_none_match, parts)) =>
               /\ (result'[Client] = "ConditionalRequestConflict") <=>
                     \/ /\ if_match # <<>> /\ live /\ same
                        /\ mp[upload_id].initiated < cur.last_modified
                     \/ if_none_match = <<STAR>> /\ ~live /\ mp[upload_id].precondition
               /\ if_none_match = <<STAR>> =>
                     /\ (result'[Client] = "PreconditionFailed") <=> live
                     /\ (~live /\ ~mp[upload_id].precondition) =>
                           result'[Client] \in {"pending", "InvalidRequest", "InvalidPart"}
               /\ result'[Client] \in {"ConditionalRequestConflict", "PreconditionFailed"} =>
                     UNCHANGED <<bucketVars, storeVars, genVars>>]_vars

\* C6 witness: a complete_multipart_upload has failed with ConditionalRequestConflict
\* while the key holds a live object that is newer than the upload (the If-Match case).
C6_Witness ==
    /\ op[Client] = "complete_multipart_upload"
    /\ result[Client] = "ConditionalRequestConflict"
    /\ objects[RaceKey] # <<>>
    /\ ~Head(objects[RaceKey]).is_delete_marker
    /\ \E u \in multiparts : mp[u].initiated < Head(objects[RaceKey]).last_modified

\* C7 (under SpecCond): put_object, and complete_multipart_upload of an existing upload,
\* reject both conditional headers together, an If-None-Match other than "*" and an
\* If-Match of "*" with NotImplemented, and no object, version, tag, multipart or stored
\* byte has changed when they do.
C7_UnsupportedConditionalRejected ==
    [][\A key \in Keys, if_match \in IfMatchValues, if_none_match \in IfNoneMatchValues :
         LET unsupported == \/ if_match # <<>> /\ if_none_match # <<>>
                            \/ if_none_match # <<>> /\ if_none_match # <<STAR>>
                            \/ if_match = <<STAR>>
             rejected == /\ result'[Client] = "NotImplemented"
                         /\ pc'[Client] = "idle"
                         /\ UNCHANGED <<bucketVars, storeVars, genVars>>
         IN (unsupported /\ pc[Client] = "idle") =>
              /\ \A tagging \in Taggings :
                    (/\ op'[Client] = "put_object"
                     /\ put_object_start(Client, key, if_match, if_none_match, tagging))
                       => rejected
              /\ \A upload_id \in UploadIds, parts \in {<<>>, <<1>>} :
                    (/\ op'[Client] = "complete_multipart_upload"
                     /\ upload_id \in multiparts /\ mp[upload_id].key = key
                     /\ complete_multipart_upload_start(Client, upload_id, key, if_match,
                                                        if_none_match, parts))
                       => rejected]_vars

\* C7 witness: a complete_multipart_upload of a registered upload with staged parts has
\* been rejected with NotImplemented.
C7_Witness ==
    /\ op[Client] = "complete_multipart_upload"
    /\ result[Client] = "NotImplemented"
    /\ \E u \in multiparts : mp[u].parts[1] # <<>>

C9_MultipartRoundTrip ==
    [][/\ \A u \in UploadIds, k \in Keys, n \in PartNums, body \in Bodies :
             (/\ pc[Client] = "idle" /\ op'[Client] = "upload_part"
              /\ result'[Client] = "ok"
              /\ upload_part(Client, u, k, n, body, <<>>, NoChecksum))
                => /\ mp'[u].parts[n] = <<100>> \o [i \in 1..Len(body) |-> 100 + body[i]]
                   /\ \A m \in PartNums \ {n} : mp'[u].parts[m] = mp[u].parts[m]
       /\ (complete_multipart_upload_commit(Client) /\ result'[Client] = "ok") =>
             LET r == req[Client]
                 cur == Head(objects'[r.key])
                 ck == <<r.key, IF cur.version_id = NoVid THEN NullVid ELSE cur.version_id>>
                 sent == [n \in PartNums |->
                            [i \in 1..(Len(mp[r.upload_id].parts[n]) - 1) |->
                                mp[r.upload_id].parts[n][i + 1] - 100]]
             IN /\ ~cur.is_delete_marker
                /\ storage'[ck] = ConcatParts(sent, r.parts)]_vars

\* C9 witness: a complete_multipart_upload listing parts 1 and 2 has succeeded and the
\* key's current object holds the bytes of part 1 followed by those of part 2.
C9_Witness ==
    /\ op[Client] = "complete_multipart_upload"
    /\ result[Client] = "ok"
    /\ objects[RaceKey] # <<>>
    /\ storage[<<RaceKey, IF Head(objects[RaceKey]).version_id = NoVid THEN NullVid
                          ELSE Head(objects[RaceKey]).version_id>>] = <<2, 1>>

\* C10 (as stated; under SpecMpu): a complete_multipart_upload of an existing upload
\* whose parts list names uploaded parts but is empty or not strictly ascending is
\* rejected, with
\* InvalidPartOrder when the list is not strictly ascending, and it commits no object
\* and leaves the multipart registered with its parts unchanged.
C10_OnlyStrictlyAscendingAccepted ==
    [][\A u \in UploadIds, k \in Keys, parts \in PartsLists :
         LET strictly == \A i \in 1..Len(parts) : \A j \in (i + 1)..Len(parts) :
                            parts[i] < parts[j]
         IN (/\ pc[Client] = "idle" /\ op'[Client] = "complete_multipart_upload"
             /\ u \in multiparts /\ mp[u].key = k
             /\ \A i \in 1..Len(parts) : mp[u].parts[parts[i]] # <<>>
             /\ parts = <<>> \/ ~strictly
             /\ complete_multipart_upload_start(Client, u, k, <<>>, <<>>, parts)) =>
               /\ pc'[Client] = "idle"
               /\ parts = <<>> => result'[Client] = "InvalidRequest"
               /\ parts # <<>> => result'[Client] = "InvalidPartOrder"
               /\ UNCHANGED <<objects, storage, multiparts, staged>>
               /\ mp'[u].parts = mp[u].parts]_vars

\* C11 (under SpecMpu): every part number recorded in the parts map of a multipart
\* upload, and every part number with staged bytes, lies in 1..10000 (the map holds one
\* entry per number); upload_part on an existing upload, and upload_part_copy on an
\* existing upload from a live source, with part number 0 or 10001 fail with
\* InvalidArgument and leave the parts map and the staged bytes unchanged.
C11_PartNumbersInRange ==
    [][/\ \A u \in 1..Len(mp') : \A n \in DOMAIN mp'[u].parts :
             (mp'[u].parts[n] # <<>> \/ staged'[u][n] # NoBytes) =>
                (n >= 1 /\ n <= 10000)
       /\ pc[Client] = "idle" =>
             \A u \in UploadIds, k \in Keys, n \in {0, 10001} :
                LET refused == /\ result'[Client] = "InvalidArgument"
                               /\ mp' = mp
                               /\ staged' = staged
                IN (u \in multiparts /\ mp[u].key = k) =>
                     /\ \A body \in Bodies :
                           (/\ op'[Client] = "upload_part"
                            /\ upload_part(Client, u, k, n, body, <<>>, NoChecksum))
                              => refused
                     /\ \A src_key \in Keys :
                           (/\ op'[Client] = "upload_part_copy"
                            /\ objects[src_key] # <<>>
                            /\ ~Head(objects[src_key]).is_delete_marker
                            /\ upload_part_copy(Client, u, k, n, src_key))
                              => refused]_vars

\* C11 witness: an upload_part_copy from a live object into a registered upload that
\* already holds a part has been refused with InvalidArgument.
C11_Witness ==
    /\ op[Client] = "upload_part_copy"
    /\ result[Client] = "InvalidArgument"
    /\ objects[RaceKey] # <<>>
    /\ \E u \in multiparts : mp[u].parts[1] # <<>>


\* what a listing has returned so far, over all its pages
RECURSIVE PagesContents(_)
PagesContents(pages) ==
    IF pages = <<>> THEN <<>> ELSE Head(pages).contents \o PagesContents(Tail(pages))
RECURSIVE PagesPrefixes(_)
PagesPrefixes(pages) ==
    IF pages = <<>> THEN <<>> ELSE Head(pages).common_prefixes \o PagesPrefixes(Tail(pages))
Range(seq) == {seq[i] : i \in DOMAIN seq}
NoRepeat(seq) == \A i, j \in DOMAIN seq : i # j => seq[i] # seq[j]
\* the keys of the bucket under the prefix, as keys and as common prefixes
KeysPresent == {k \in DOMAIN objects : objects[k] # <<>>}
\* the ends of the occurrences of the delimiter in the remainder of k after the prefix
DelimiterEnds(k, prefix, delimiter) ==
    {e \in (Len(prefix) + Len(delimiter))..Len(k) :
        delimiter # <<>> /\ \A i \in 1..Len(delimiter) :
            k[e - Len(delimiter) + i] = delimiter[i]}
ExpectedKeys(prefix, delimiter) ==
    {k \in KeysPresent : StartsWith(k, prefix) /\ DelimiterEnds(k, prefix, delimiter) = {}}
ExpectedPrefixes(prefix, delimiter) ==
    {SubSeq(k, 1, CHOOSE e \in DelimiterEnds(k, prefix, delimiter) :
                     \A f \in DelimiterEnds(k, prefix, delimiter) : e <= f) :
        k \in {x \in KeysPresent :
                  StartsWith(x, prefix) /\ DelimiterEnds(x, prefix, delimiter) # {}}}

\* C12: paginating list_objects_v2 with the returned NextContinuationToken over an
\* unchanged bucket, max_keys >= 1 and no encoding_type, returns no key and no common
\* prefix twice, and once IsTruncated is false it has returned every matching key that
\* is not collapsed and every common prefix: the same as the unpaginated listing.
C12_V2PaginationExact ==
    (listing.api = "list_objects_v2" /\ ~listing.encoding_type /\ listing.max_keys >= 1) =>
        /\ NoRepeat(PagesContents(listing.pages))
        /\ NoRepeat(PagesPrefixes(listing.pages))
        /\ ~LastPage.is_truncated =>
              LET whole == list_objects_v2_page(objects, listing.prefix, listing.delimiter,
                                                DefaultMaxKeys, FALSE, <<>>)
              IN /\ Range(PagesContents(listing.pages)) = Range(whole.contents)
                 /\ Range(PagesPrefixes(listing.pages)) = Range(whole.common_prefixes)
                 /\ ~whole.is_truncated
                 /\ Range(PagesContents(listing.pages))
                       = ExpectedKeys(listing.prefix, listing.delimiter)
                 /\ Range(PagesPrefixes(listing.pages))
                       = ExpectedPrefixes(listing.prefix, listing.delimiter)

\* a listing of three pages that ends, with a common prefix and keys returned
C12_Witness ==
    /\ listing.api = "list_objects_v2"
    /\ ~listing.encoding_type
    /\ listing.max_keys = 1
    /\ Len(listing.pages) = 3
    /\ ~LastPage.is_truncated
    /\ PagesPrefixes(listing.pages) = << <<97, 47>> >>
    /\ Len(PagesContents(listing.pages)) = 2

\* C18: an unpaginated list_objects or list_objects_v2 (every entry fits in max_keys, a
\* common prefix counting once) returns as Contents the matching keys whose remainder
\* after the prefix has no delimiter, in key order, and as CommonPrefixes the distinct
\* values of prefix + remainder up to and including the first delimiter, sorted.
C18_DelimiterGrouping ==
    (/\ listing.api \in {"list_objects", "list_objects_v2"}
     /\ ~listing.encoding_type
     /\ Len(listing.pages) = 1
     /\ listing.max_keys >= 1
     /\ Cardinality(ExpectedKeys(listing.prefix, listing.delimiter))
          + Cardinality(ExpectedPrefixes(listing.prefix, listing.delimiter))
             <= listing.max_keys) =>
        /\ LastPage.contents = SortedStrings(ExpectedKeys(listing.prefix, listing.delimiter))
        /\ LastPage.common_prefixes
              = SortedStrings(ExpectedPrefixes(listing.prefix, listing.delimiter))
        /\ listing.api = "list_objects_v2" => ~LastPage.is_truncated

\* keys a/1, a/2 and b listed with delimiter "/" and max_keys 2: one prefix, one key
C18_Witness ==
    /\ listing.api = "list_objects"
    /\ ~listing.encoding_type
    /\ listing.max_keys = 2
    /\ listing.delimiter = <<47>>
    /\ listing.prefix = <<>>
    /\ KeysPresent = {<<97, 47, 49>>, <<97, 47, 50>>, <<98>>}
    /\ Len(listing.pages) = 1
    /\ LastPage.contents = << <<98>> >>
    /\ LastPage.common_prefixes = << <<97, 47>> >>

\* C17: list_objects and list_objects_v2 called with max_keys = 0 return an empty page:
\* no key, no common prefix, IsTruncated false.
C17_MaxKeysZeroEmptyPage ==
    (listing.api \in {"list_objects", "list_objects_v2"} /\ listing.max_keys = 0) =>
        /\ LastPage.contents = <<>>
        /\ LastPage.common_prefixes = <<>>
        /\ ~LastPage.is_truncated

\* C19: with encoding_type = url, paginating list_objects_v2 with the returned
\* NextContinuationToken, or list_objects with the returned NextMarker, returns the
\* keys and common prefixes of the listing without encoding_type (url-encoded), each once.
C19_EncodedPaginationSameKeys ==
    (/\ \/ listing.api = "list_objects_v2"
        \/ listing.api = "list_objects" /\ listing.delimiter # <<>>
     /\ listing.encoding_type
     /\ listing.max_keys >= 1
     /\ ~LastPage.is_truncated) =>
        /\ NoRepeat(PagesContents(listing.pages))
        /\ NoRepeat(PagesPrefixes(listing.pages))
        /\ Range(PagesContents(listing.pages))
              = {quote(k) : k \in ExpectedKeys(listing.prefix, listing.delimiter)}
        /\ Range(PagesPrefixes(listing.pages))
              = {quote(k) : k \in ExpectedPrefixes(listing.prefix, listing.delimiter)}

\* C16: a page of list_objects or list_objects_v2 has IsTruncated true exactly when a
\* matching key or a common prefix that was not returned yet remains after it.
C16_TruncatedIffEntriesRemain ==
    (/\ listing.api \in {"list_objects", "list_objects_v2"}
     /\ ~listing.encoding_type
     /\ listing.max_keys >= 1) =>
        (LastPage.is_truncated <=>
            \/ Range(PagesContents(listing.pages))
                  # ExpectedKeys(listing.prefix, listing.delimiter)
            \/ Range(PagesPrefixes(listing.pages))
                  # ExpectedPrefixes(listing.prefix, listing.delimiter))

\* the (key, version id) pairs a versions listing has returned, in order
ReturnedVersions ==
    [i \in DOMAIN PagesContents(listing.pages) |->
        <<PagesContents(listing.pages)[i].key, PagesContents(listing.pages)[i].version_id>>]
\* the (key, version id) pairs in the bucket under the prefix and outside common prefixes
SurvivingVersions(prefix, delimiter) ==
    UNION {{<<k, IF v.version_id = NoVid THEN NullVid ELSE v.version_id>> :
               v \in Range(objects[k])} : k \in ExpectedKeys(prefix, delimiter)}

C15_AtMostMaxKeysEntries ==
    (listing.api = "list_object_versions" /\ listing.max_keys >= 1) =>
        Len(LastPage.contents) + Len(LastPage.common_prefixes) <= listing.max_keys

\* the upload ids a listing of uploads has returned, in order
ReturnedUploads ==
    [i \in DOMAIN PagesContents(listing.pages) |->
        PagesContents(listing.pages)[i].upload_id]

\* C14: paginating list_multipart_uploads with the returned NextKeyMarker and
\* NextUploadIdMarker, max_uploads >= 1 and the uploads unchanged, returns no upload and
\* no common prefix twice, every truncated response carries a next marker to go on
\* with, and when IsTruncated is false every matching upload has been returned.
C14_UploadsPaginationExact ==
    (listing.api = "list_multipart_uploads" /\ listing.max_keys >= 1) =>
        /\ NoRepeat(ReturnedUploads)
        /\ NoRepeat(PagesPrefixes(listing.pages))
        /\ LastPage.is_truncated => LastPage.next_marker # <<>>
        /\ ~LastPage.is_truncated =>
              Range(ReturnedUploads)
                 = {u \in multiparts :
                       /\ StartsWith(mp[u].key, listing.prefix)
                       /\ DelimiterEnds(mp[u].key, listing.prefix, listing.delimiter) = {}}

\* the entries list_object_versions returns for key k in the next state, unpaginated
C20_Listed(k) ==
    SelectSeq(list_object_versions_page(objects', <<>>, <<>>, DefaultMaxKeys, FALSE,
                                        <<>>, NoVid).contents,
              LAMBDA e : e.key = k)

\* C20: whenever a step changes the versions of a key, the key then has exactly one
\* version listed with IsLatest, the head of its versions, which are kept in insertion
\* order (the step inserts on top or removes, and never reorders or alters the others);
\* this is the version get_object(k) resolves. In an Enabled bucket a put_object, copy_object or
\* complete_multipart_upload that commits adds a version with a new id on top and leaves
\* every earlier version, its record and its bytes, as it was.
C20_CurrentVersionAndHistory ==
    [][\A k \in Keys :
          LET old == objects[k]
              new == objects'[k]
              listed == C20_Listed(k)
          IN new # old =>
             /\ \A i, j \in 1..Len(new) : i # j => new[i].version_id # new[j].version_id
             /\ Len(listed) = Len(new)
             /\ new # <<>> =>
                   /\ Cardinality({i \in 1..Len(new) : listed[i].is_latest}) = 1
                   /\ \E i \in 1..Len(new) :
                         /\ listed[i].is_latest
                         /\ listed[i].version_id
                               = VersionEntry(k, KeyVersions(objects', k)[1]).version_id
                         /\ KeyVersions(objects', k)[1].is_current
                         /\ Current(objects', k).version_id = Head(new).version_id
             /\ \/ new = SelectSeq(old, LAMBDA v : v \in Range(new))
                \/ /\ new # <<>>
                   /\ Tail(new) = SelectSeq(old, LAMBDA v : v \in Range(Tail(new)))
                \/ /\ op'[Client] = "put_bucket_versioning"
                   /\ new = from_key_store(objects)[k]
             /\ (/\ versioning_status = "Enabled"
                 /\ op'[Client] \in {"put_object", "copy_object", "complete_multipart_upload"})
                  =>
                   /\ Tail(new) = old
                   /\ \A v \in Range(old) :
                         /\ Head(new).version_id # v.version_id
                         /\ GetVersion(objects', k, v.version_id) = v
                         /\ storage'[CompositeKey(k, v.version_id)]
                               = storage[CompositeKey(k, v.version_id)]
                   /\ op'[Client] = "put_object" =>
                         Head(new).etag
                            = MD5Hex(storage'[CompositeKey(k, Head(new).version_id)])]_vars

\* put v1, put v2 in an Enabled bucket: v2 is current, v1 is still there with its bytes
C20_Witness ==
    /\ versioning_status = "Enabled"
    /\ op[Client] = "put_object"
    /\ result[Client] = "ok"
    /\ Len(objects[RaceKey]) = 2
    /\ Current(objects, RaceKey).version_id = 2
    /\ storage[CompositeKey(RaceKey, 2)] = <<2>>
    /\ HasVersion(objects, RaceKey, 1)
    /\ storage[CompositeKey(RaceKey, 1)] = <<1>>

C22_DeleteVersionRemovesExactlyIt ==
    [][/\ \A k \in Keys, v \in Vids :
             (/\ versioning_status # "unset"
              /\ HasVersion(objects, k, v)
              /\ ~is_locked(GetVersion(objects, k, v))
              /\ delete_object(Client, k, v)) =>
                LET old == objects[k]
                    new == objects'[k]
                    removed == GetVersion(objects, k, v)
                IN /\ result'[Client] = "ok"
                   /\ response'[Client].version_id = v
                   /\ Len(new) = Len(old) - 1
                   /\ new = SelectSeq(old, LAMBDA x : x # removed)
                   /\ \A x \in Range(new) :
                         storage'[CompositeKey(k, x.version_id)]
                            = storage[CompositeKey(k, x.version_id)]
                   /\ ~removed.is_delete_marker => storage'[CompositeKey(k, v)] = NoBytes
                   /\ Head(old) # removed => Current(objects', k) = Head(old)
                   /\ (Head(old) = removed /\ Len(old) > 1) =>
                         /\ Current(objects', k) = old[2]
                         /\ ~old[2].is_delete_marker =>
                               /\ s3_bucket_get_object(objects', versioning_status', k,
                                                       NoVid, "GET") = "ok"
                               /\ ResolvedObject(objects', versioning_status', k, NoVid)
                                     = old[2]
                   /\ Len(old) = 1 =>
                         /\ ~HasCurrent(objects', k)
                         /\ s3_bucket_get_object(objects', versioning_status', k, NoVid,
                                                 "GET") = "NoSuchKey"
       /\ \A k \in Keys :
             (/\ versioning_status # "unset"
              /\ pc[Client] = "get_open"
              /\ req[Client].key = k
              /\ req[Client].version_id = NoVid
              /\ get_object_open(Client)) =>
                /\ result'[Client] = "ok"
                /\ response'[Client].version_id = Head(objects[k]).version_id
                /\ response'[Client].etag = Quoted(Head(objects[k]).etag)
                /\ response'[Client].body
                      = storage[CompositeKey(k, Head(objects[k]).version_id)]
      ]_vars

\* C22 witness: the delete marker with the second fresh id was removed by its id, and
\* get_object of the key has returned the object under it
C22_Witness ==
    /\ versioning_status = "Enabled"
    /\ nextVid = 3
    /\ Len(objects[RaceKey]) = 1
    /\ Current(objects, RaceKey).version_id = 1
    /\ op[Client] = "get_object"
    /\ result[Client] = "ok"
    /\ req[Client] = NoReq
    /\ response[Client].version_id = 1
    /\ response[Client].body \in Bodies

\* the entries list_object_versions returns for key k in the next state, unpaginated
C23_Listed(k) ==
    SelectSeq(list_object_versions_page(objects', <<>>, <<>>, DefaultMaxKeys, FALSE,
                                        <<>>, NoVid).contents,
              LAMBDA e : e.key = k)

\* C23: a put_bucket_versioning on a bucket whose versioning was never set keeps every
\* object: the keys are the same, each object is still the current version of its key
\* with its etag, bytes and tags, get_object of the key resolves it, and it is
\* addressable and listed by list_object_versions under the version id "null".
C23_VersioningKeepsObjects ==
    [][/\ \A status \in {"Enabled", "Suspended"} :
             (versioning_status = "unset" /\ put_bucket_versioning(Client, status)) =>
                /\ result'[Client] = "ok"
                /\ versioning_status' = status
                /\ storage' = storage
                /\ tags' = tags
                /\ \A k \in Keys :
                      /\ HasCurrent(objects', k) = HasCurrent(objects, k)
                      /\ HasCurrent(objects, k) =>
                            LET before == Current(objects, k)
                                after == Current(objects', k)
                            IN /\ Len(objects'[k]) = 1
                               /\ after = [before EXCEPT !.version_id = NullVid]
                               /\ s3_bucket_get_object(objects', status, k, NoVid, "GET") = "ok"
                               /\ ResolvedObject(objects', status, k, NoVid) = after
                               /\ s3_bucket_get_object(objects', status, k, NullVid, "GET")
                                     = "ok"
                               /\ ResolvedObject(objects', status, k, NullVid) = after
                               /\ storage'[CompositeKey(k, NullVid)]
                                     = storage[CompositeKey(k, before.version_id)]
                               /\ Len(C23_Listed(k)) = 1
                               /\ C23_Listed(k)[1].version_id = NullVid
                               /\ C23_Listed(k)[1].is_latest
                               /\ ~C23_Listed(k)[1].is_delete_marker
       /\ \A k \in Keys :
             (/\ versioning_status # "unset"
              /\ nextVid = 1
              /\ pc[Client] = "get_open"
              /\ req[Client].key = k
              /\ req[Client].version_id = NullVid
              /\ get_object_open(Client)) =>
                /\ result'[Client] = "ok"
                /\ response'[Client].version_id = NullVid
                /\ response'[Client].etag = Quoted(Current(objects, k).etag)
                /\ response'[Client].body \in Bodies
                /\ MD5Hex(response'[Client].body) = Current(objects, k).etag
      ]_vars

\* C23 witness: versioning has just been enabled on a bucket that holds an object, which
\* is current under the version id "null" with its bytes
C23_Witness ==
    /\ versioning_status = "Enabled"
    /\ nextVid = 1
    /\ op[Client] = "put_bucket_versioning"
    /\ result[Client] = "ok"
    /\ Len(objects[RaceKey]) = 1
    /\ Current(objects, RaceKey).version_id = NullVid
    /\ ~Current(objects, RaceKey).is_delete_marker
    /\ storage[CompositeKey(RaceKey, NullVid)] \in Bodies

\* no account reaches a bucket of the name
C24_NoBucket == global_bucket_map = NoAccount /\ \A a \in Accounts : buckets[a] = NoBucket

\* C24: delete_bucket fails with BucketNotEmpty exactly when the key store holds a
\* version or a delete marker, and then leaves the bucket, the bucket maps and the
\* expiration cache as they were; when it succeeds the name is gone from the owner's
\* buckets map and from the global bucket map and the bucket's expiration cache is
\* dropped; while the name is gone every operation on it fails with NoSuchBucket and
\* either account can create it again.
C24_DeleteBucket ==
    [][\A w \in Workers :
          /\ (get_cross_account_bucket(w) # NoAccount /\ delete_bucket_start(w)) =>
                /\ result'[w] = "BucketNotEmpty" <=> \E k \in Keys : objects[k] # <<>>
                /\ result'[w] \in {"BucketNotEmpty", "pending"}
                /\ UNCHANGED <<bucketVars, storeVars, configVars, expiration_cache>>
          /\ (pc[w] = "delete_global" /\ delete_bucket_global(w)) =>
                /\ result'[w] = "ok"
                /\ global_bucket_map' = NoAccount
                /\ \A a \in Accounts : buckets'[a] = NoBucket
                /\ \A k \in Keys : expiration_cache'[k] = NoHeader
          /\ C24_NoBucket =>
                /\ (\/ \E key \in Keys : put_object_start(w, key, <<>>, <<>>, NoTag)
                    \/ \E key \in Keys, version_id \in ReadVersionIds :
                          delete_object(w, key, version_id)
                    \/ \E key \in Keys : head_object(w, key, NoVid, <<>>)
                    \/ put_bucket_lifecycle_configuration(w, 1)
                    \/ put_bucket_versioning(w, "Enabled")
                    \/ delete_bucket_start(w)) =>
                      /\ result'[w] = "NoSuchBucket"
                      /\ UNCHANGED <<bucketVars, storeVars, configVars, expiration_cache>>
                /\ \A bucket_region \in Regions :
                      create_bucket_start(w, bucket_region) => pc'[w] = "create_store"
          /\ (pc[w] = "create_global" /\ create_bucket_global(w)) =>
                /\ result'[w] = "ok"
                /\ global_bucket_map' = w
                /\ buckets'[w] = req[w].region
                /\ \A a \in Accounts \ {w} : buckets'[a] = NoBucket
      ]_vars

\* C24 witness: the bucket of the first account was deleted by it and the second
\* account has created the name again
C24_Witness ==
    /\ op[1] = "delete_bucket"
    /\ result[1] = "ok"
    /\ op[2] = "create_bucket"
    /\ result[2] = "ok"
    /\ global_bucket_map = 2
    /\ buckets[2] = "eu-west-1"
    /\ buckets[1] = NoBucket

\* C25: whenever no create_bucket or delete_bucket is in progress, the name is in the
\* global bucket map iff exactly one account's buckets map holds it, and the global
\* bucket map names that account.
C25_GlobalMapMatchesBuckets ==
    (\A w \in Workers : pc[w] = "idle") =>
        /\ global_bucket_map # NoAccount
              <=> Cardinality({a \in Accounts : buckets[a] # NoBucket}) = 1
        /\ global_bucket_map # NoAccount => buckets[global_bucket_map] # NoBucket

\* C26: a create_bucket for a name the global bucket map holds fails with
\* BucketAlreadyExists when another account owns it, fails with BucketAlreadyOwnedByYou
\* when the caller owns it and the requested region is not us-east-1, and succeeds
\* when the caller owns it and the requested region is us-east-1; in all three cases
\* the existing bucket, the maps and the stores stay as they were.
C26_CreateExistingBucket ==
    [][\A w \in Workers, bucket_region \in Regions :
          (global_bucket_map # NoAccount /\ create_bucket_start(w, bucket_region)) =>
             /\ pc'[w] = "idle"
             /\ result'[w] = IF global_bucket_map # w THEN "BucketAlreadyExists"
                             ELSE IF bucket_region # "us-east-1"
                             THEN "BucketAlreadyOwnedByYou"
                             ELSE "ok"
             /\ UNCHANGED <<bucketVars, storeVars, configVars, expiration_cache>>
      ]_vars

\* C26 witness: the owner's create_bucket in us-east-1 has succeeded on its bucket,
\* which still holds its object and its lifecycle rules
C26_Witness ==
    /\ op[1] = "create_bucket"
    /\ result[1] = "ok"
    /\ global_bucket_map = 1
    /\ buckets[1] = "us-east-1"
    /\ HasCurrent(objects, RaceKey)
    /\ storage[CompositeKey(RaceKey, NoVid)] \in Bodies
    /\ lifecycle_rules = 1

\* SpecNotify: a bucket whose notifications can be switched on; requests arrive one at
\* a time, some of them failing (a Content-MD5 that does not match, a version that does
\* not exist, a copy of an object onto itself)
NotifyDeleteLists == {<<<<RaceKey, NoVid>>>>, <<<<RaceKey, 1>>, <<RaceKey, NoVid>>>>}
NextNotify ==
    \/ \E configuration \in BOOLEAN :
          put_bucket_notification_configuration(Client, configuration)
    \/ \E key \in Keys : put_object_start(Client, key, <<>>, <<>>, NoTag)
    \/ put_object_check(Client)
    \/ \E content_md5 \in ContentMD5Values :
          put_object_write(Client, <<1>>, content_md5, NoChecksum)
    \/ put_object_tags(Client)
    \/ \E key \in Keys, version_id \in {NoVid, 1} : delete_object(Client, key, version_id)
    \/ \E key \in Keys, metadata_replace \in BOOLEAN :
          copy_object(Client, key, key, NoVid, metadata_replace)
    \/ \E key \in Keys : put_object_tagging(Client, key, NoVid, 1)
    \/ \E entries \in NotifyDeleteLists : delete_objects(Client, entries)
    \/ put_bucket_versioning(Client, "Enabled")

SpecNotify == InitAnyVersioning /\ [][NextNotify]_vars

NotifyingOperations == {"put_object", "copy_object", "post_object", "complete_multipart_upload", "delete_object", "delete_objects", "put_object_tagging", "delete_object_tagging", "put_object_acl", "restore_object"}

\* the mutation an event reports is in the key store
Committed(store, e) ==
    IF e.name = "ObjectRemoved:Delete"
    THEN ~HasVersion(store, e.key, e.version_id)
    ELSE \E i \in 1..Len(store[e.key]) :
            CompositeKey(e.key, store[e.key][i].version_id) = CompositeKey(e.key, e.version_id)

NextRaceExpiry ==
    \/ \E key \in Keys : put_object_start(Client, key, <<>>, <<>>, NoTag)
    \/ put_object_check(Client)
    \/ put_object_write(Client, <<1>>, <<>>, NoChecksum)
    \/ put_object_tags(Client)
    \/ \E w \in Workers :
          \/ \E key \in Keys : get_object_start(w, key, NoVid, <<>>)
          \/ get_object_open(w)
          \/ get_object_expiration(w)
          \/ \E key \in Keys : head_object(w, key, NoVid, <<>>)
          \/ \E rules \in LifecycleInputs : put_bucket_lifecycle_configuration(w, rules)
          \/ delete_bucket_lifecycle(w)

SpecRaceExpiry == Init /\ [][NextRaceExpiry]_vars

\* C28: a head_object, which starts and returns in one step and so starts after every
\* change of the lifecycle rules that has returned, returns no Expiration value or one
\* derived from the rules the bucket has now
C28_ExpirationFromCurrentRules ==
    [][\A w \in Workers, key \in Keys :
          head_object(w, key, NoVid, <<>>) /\ result'[w] = "ok" =>
             \/ response'[w].expiration = NoHeader
             \/ /\ lifecycle_rules # NoRules
                /\ response'[w].expiration[1] = lifecycle_rules]_vars

\* SpecLock: a bucket that is switched to versioning and object lock; versions are
\* written with and without tags, put under and released from legal hold, and deleted
\* one by one and in lists; requests arrive one at a time
LockDeleteLists == {<<<<RaceKey, 1>>>>, <<<<RaceKey, 1>>, <<RaceKey, 2>>>>, <<<<RaceKey, 2>>, <<RaceKey, NoVid>>>>}
NextLock ==
    \/ put_bucket_versioning(Client, "Enabled")
    \/ put_object_lock_configuration(Client)
    \/ put_bucket_notification_configuration(Client, TRUE)
    \/ \E key \in Keys, tagging \in Taggings : put_object_start(Client, key, <<>>, <<>>, tagging)
    \/ put_object_check(Client)
    \/ put_object_write(Client, <<1>>, <<>>, NoChecksum)
    \/ put_object_tags(Client)
    \/ \E key \in Keys, version_id \in ReadVersionIds, status \in BOOLEAN :
          put_object_legal_hold(Client, key, version_id, status)
    \/ \E key \in Keys, version_id \in ReadVersionIds : delete_object(Client, key, version_id)
    \/ \E entries \in LockDeleteLists : delete_objects(Client, entries)

SpecLock == Init /\ [][NextLock]_vars

\* the version is in the key store and under a legal hold
Locked(store, key, version_id) ==
    HasVersion(store, key, version_id) /\ GetVersion(store, key, version_id).lock_legal_status

\* the version, its bytes and its tags are after the step what they were before it
VersionRemains(key, version_id) ==
    /\ HasVersion(objects', key, version_id)
    /\ GetVersion(objects', key, version_id) = GetVersion(objects, key, version_id)
    /\ storage'[CompositeKey(key, version_id)] = storage[CompositeKey(key, version_id)]
    /\ tags'[get_unique_key_id(key, version_id)] = tags[get_unique_key_id(key, version_id)]

\* no event of the dispatch made in this step, if any, is about the version
NoEventFor(key, version_id) ==
    notified' # notified =>
       \A i \in 1..Len(notified'.events) :
          ~(notified'.events[i].key = key /\ notified'.events[i].version_id = version_id)

NextRaceRead ==
    \E w \in Workers :
       \/ \E key \in Keys : put_object_start(w, key, <<>>, <<>>, NoTag)
       \/ put_object_check(w)
       \/ \E body \in Bodies : put_object_write(w, body, <<>>, NoChecksum)
       \/ put_object_tags(w)
       \/ \E key \in Keys, if_match \in ReadIfMatchValues :
             get_object_start(w, key, NoVid, if_match)
       \/ get_object_open(w)

SpecRaceRead == Init /\ [][NextRaceRead]_vars

\* C30: a get_object that returns success returns the ETag and the bytes of one
\* write, and its If-Match precondition holds for that ETag
C30_ResponseOfOneWrite ==
    [][\A w \in Workers :
          get_object_open(w) /\ result'[w] = "ok" =>
             /\ Strip(response'[w].etag) = MD5Hex(response'[w].body)
             /\ validate_failed_precondition(req[w].if_match, Strip(response'[w].etag)) = "ok"]_vars

\* SpecParts: parts are uploaded to uploads of the one key, in any order, and listed
\* with every page size and marker; requests arrive one at a time
MaxPartsParam == 3   \* max_parts of a list_parts request is 0..MaxPartsParam
NextParts ==
    \/ \E key \in Keys : create_multipart_upload(Client, key, NoTag)
    \/ \E upload_id \in UploadIds, key \in Keys, part_number \in PartNums, body \in Bodies :
          upload_part(Client, upload_id, key, part_number, body, <<>>, NoChecksum)
    \/ \E upload_id \in UploadIds, key \in Keys, max_parts \in 0..MaxPartsParam,
          part_number_marker \in 0..MaxPart :
          list_parts(Client, upload_id, key, max_parts, part_number_marker)

SpecParts == Init /\ [][NextParts]_vars

\* the pages a client gets that lists again with NextPartNumberMarker while IsTruncated
RECURSIVE PaginateParts(_, _, _)
PaginateParts(parts, max_parts, part_number_marker) ==
    LET page == list_parts_page(parts, max_parts, part_number_marker)
    IN IF page.is_truncated
       THEN page.parts \o PaginateParts(parts, max_parts, page.next_part_number_marker)
       ELSE page.parts

\* what the claim says of the page of a list_parts request with page size limit
PartsPageAsClaimed(parts, limit, max_parts, part_number_marker, page) ==
    LET after == {n \in DOMAIN parts : parts[n] # <<>> /\ n > part_number_marker}
        last == IF page.parts = <<>> THEN part_number_marker
                ELSE page.parts[Len(page.parts)]
    IN /\ \A i \in 1..Len(page.parts) : page.parts[i] \in after
       /\ \A i \in 1..Len(page.parts) : \A j \in 1..Len(page.parts) :
             i < j => page.parts[i] < page.parts[j]
       /\ Len(page.parts) <= limit
       /\ page.is_truncated <=> \E n \in after : n > last
       /\ page.next_part_number_marker = (IF page.parts = <<>> THEN 0 ELSE last)
       /\ PaginateParts(parts, max_parts, 0) = UploadedParts(parts)

\* C31: a list_parts that succeeds returns parts above the marker in ascending order,
\* at most max_parts of them, truncated exactly if a higher part remains, with the
\* last part returned as the next marker; paginating from the start visits every
\* uploaded part once
C31_ListPartsPage ==
    [][\A upload_id \in UploadIds, key \in Keys, max_parts \in 0..MaxPartsParam, part_number_marker \in 0..MaxPart :
          list_parts(Client, upload_id, key, max_parts, part_number_marker)
             /\ result'[Client] = "ok" =>
                PartsPageAsClaimed(mp[upload_id].parts, max_parts, max_parts,
                                   part_number_marker, response'[Client].page)]_vars

\* the same for the requests that give a max_parts of at least 1
C31_ListPartsPagePositive ==
    [][\A upload_id \in UploadIds, key \in Keys, max_parts \in 1..MaxPartsParam, part_number_marker \in 0..MaxPart :
          list_parts(Client, upload_id, key, max_parts, part_number_marker)
             /\ result'[Client] = "ok" =>
                PartsPageAsClaimed(mp[upload_id].parts, max_parts, max_parts,
                                   part_number_marker, response'[Client].page)]_vars

\* SpecRaceAbort: the first client creates uploads of the one key, uploads their part
\* and completes them while the second aborts them
Aborter == CHOOSE w \in Workers : w # Client
NextRaceAbort ==
    \/ create_multipart_upload(Client, RaceKey, NoTag)
    \/ \E upload_id \in UploadIds, body \in Bodies :
          upload_part(Client, upload_id, RaceKey, 1, body, <<>>, NoChecksum)
    \/ \E upload_id \in UploadIds :
          complete_multipart_upload_start(Client, upload_id, RaceKey, <<>>, <<>>, <<1>>)
    \/ complete_multipart_upload_commit(Client)
    \/ \E upload_id \in UploadIds : abort_multipart_upload_start(Aborter, upload_id, RaceKey)
    \/ abort_multipart_upload_pop(Aborter)

SpecRaceAbort == Init /\ [][NextRaceAbort]_vars

\* C32: where only complete_multipart_upload and abort_multipart_upload end an
\* upload, each of the two that returns success finds the upload still registered,
\* so the other one has not returned success for it; and an abort leaves the key
\* store and the bytes of the committed objects alone
C32_AbortOrComplete ==
    [][/\ abort_multipart_upload_pop(Aborter) /\ result'[Aborter] = "ok" =>
             /\ req[Aborter].upload_id \in multiparts
             /\ objects' = objects
             /\ storage' = storage
       /\ complete_multipart_upload_commit(Client) /\ result'[Client] = "ok" =>
             req[Client].upload_id \in multiparts]_vars

\* the part of C32 about the bytes: an abort leaves the key store and the content
\* store alone, and a complete that returns success finds its upload registered
C32_AbortKeepsCommittedBytes ==
    [][/\ abort_multipart_upload_pop(Aborter) => objects' = objects /\ storage' = storage
       /\ complete_multipart_upload_commit(Client) /\ result'[Client] = "ok" =>
             req[Client].upload_id \in multiparts]_vars

\* SpecPartFail: parts are uploaded again and again under the same part numbers, with
\* and without a Content-MD5 or checksum that the bytes fail to match
NextPartFail ==
    \/ \E key \in Keys : create_multipart_upload(Client, key, NoTag)
    \/ \E upload_id \in UploadIds, key \in Keys, part_number \in PartNums, body \in Bodies,
          content_md5 \in ContentMD5Values, checksum \in ChecksumInputs :
          upload_part(Client, upload_id, key, part_number, body, content_md5, checksum)
    \/ \E upload_id \in UploadIds, key \in Keys :
          abort_multipart_upload(Client, upload_id, key)

SpecPartFail == Init /\ [][NextPartFail]_vars

\* C33: every entry of the parts map of a registered upload is backed by staged bytes
\* whose MD5 is the part's etag
C33_PartsBackedByStaging ==
    \A upload_id \in multiparts : \A n \in PartNums :
       mp[upload_id].parts[n] # <<>> =>
          /\ staged[upload_id][n] # NoBytes
          /\ MD5Hex(staged[upload_id][n]) = mp[upload_id].parts[n]

\* SpecFrame: untagged objects are written and deleted while tagged uploads of the
\* same key are created, filled, listed, aborted and completed; requests arrive one
\* at a time
NextFrame ==
    \/ \E key \in Keys : put_object_start(Client, key, <<>>, <<>>, NoTag)
    \/ put_object_check(Client)
    \/ put_object_write(Client, <<1>>, <<>>, NoChecksum)
    \/ put_object_tags(Client)
    \/ \E key \in Keys : delete_object(Client, key, NoVid)
    \/ \E key \in Keys : create_multipart_upload(Client, key, 1)
    \/ \E upload_id \in UploadIds, key \in Keys, content_md5 \in ContentMD5Values :
          upload_part(Client, upload_id, key, 1, <<2>>, content_md5, NoChecksum)
    \/ \E upload_id \in UploadIds, key \in Keys, src_key \in Keys :
          upload_part_copy(Client, upload_id, key, 1, src_key)
    \/ \E upload_id \in UploadIds, key \in Keys : list_parts(Client, upload_id, key, 1, 0)
    \/ \E upload_id \in UploadIds, key \in Keys : abort_multipart_upload(Client, upload_id, key)
    \/ \E upload_id \in UploadIds, key \in Keys :
          complete_multipart_upload_start(Client, upload_id, key, <<>>, <<>>, <<1>>)
    \/ complete_multipart_upload_commit(Client)

SpecFrame == InitAnyVersioning /\ [][NextFrame]_vars

UploadFrameOperations == {"create_multipart_upload", "upload_part", "upload_part_copy", "list_parts", "abort_multipart_upload"}

\* C34: a create_multipart_upload, upload_part, upload_part_copy, list_parts or
\* abort_multipart_upload, whatever it returns, leaves the key store, the tag table,
\* the content store and the versioning status as they were, so that every read and
\* listing of the key resolves to what it resolved to before
C34_UploadLeavesObjectsAlone ==
    [][pc[Client] = "idle" /\ op'[Client] \in UploadFrameOperations =>
          /\ objects' = objects
          /\ tags' = tags
          /\ storage' = storage
          /\ versioning_status' = versioning_status
          /\ \A key \in Keys, http_method \in {"GET", "HEAD"} :
                /\ s3_bucket_get_object(objects', versioning_status', key, NoVid, http_method)
                      = s3_bucket_get_object(objects, versioning_status, key, NoVid, http_method)
                /\ s3_bucket_get_object(objects, versioning_status, key, NoVid, http_method)
                      = "ok" =>
                         ResolvedObject(objects', versioning_status', key, NoVid)
                            = ResolvedObject(objects, versioning_status, key, NoVid)]_vars

\* C34 witness: a tagged upload of the key holds a part while the key still resolves
\* to the object, the bytes and the empty tag set it had
C34_Witness ==
    /\ op[Client] = "upload_part"
    /\ result[Client] = "ok"
    /\ \E upload_id \in multiparts :
          /\ mp[upload_id].key = RaceKey
          /\ mp[upload_id].tagging = 1
          /\ mp[upload_id].parts[1] = MD5Hex(<<2>>)
    /\ HasCurrent(objects, RaceKey)
    /\ Current(objects, RaceKey).etag = MD5Hex(<<1>>)
    /\ storage[CompositeKey(RaceKey, Current(objects, RaceKey).version_id)] = <<1>>
    /\ tags[get_unique_key_id(RaceKey, Current(objects, RaceKey).version_id)] = NoTag

\* SpecTags: tagged and untagged objects are written, copied and deleted, by key, by
\* version id and in lists, while the versioning of the bucket is switched; requests
\* arrive one at a time
TagsDeleteLists == {<<<<RaceKey, NoVid>>>>, <<<<RaceKey, NullVid>>, <<RaceKey, 1>>>>}
NextTags ==
    \/ \E key \in Keys, tagging \in Taggings : put_object_start(Client, key, <<>>, <<>>, tagging)
    \/ put_object_check(Client)
    \/ put_object_write(Client, <<1>>, <<>>, NoChecksum)
    \/ put_object_tags(Client)
    \/ \E key \in Keys : copy_object(Client, key, key, NoVid, TRUE)
    \/ \E key \in Keys, version_id \in ReadVersionIds : delete_object(Client, key, version_id)
    \/ \E entries \in TagsDeleteLists : delete_objects(Client, entries)
    \/ \E status \in {"Enabled", "Suspended"} : put_bucket_versioning(Client, status)

SpecTags == InitAnyVersioning /\ [][NextTags]_vars

\* C35: every entry of the tag table is the entry of a version that is in the key
\* store and is not a delete marker
C35_TagsOfLiveVersions ==
    \A key \in Keys, version_id \in Vids :
       tags[get_unique_key_id(key, version_id)] # NoTag =>
          \E i \in 1..Len(objects[key]) :
             /\ get_unique_key_id(key, objects[key][i].version_id)
                   = get_unique_key_id(key, version_id)
             /\ ~objects[key][i].is_delete_marker

\* ------------------------------------- bucket tagging
\* tagging: the TagSet of the request, NoTag an empty one; it replaces the entry under the
\* bucket's ARN in the tag table of the owner's store
put_bucket_tagging(w, tagging) ==
    /\ pc[w] = "idle"
    /\ op' = [op EXCEPT ![w] = "put_bucket_tagging"]
    /\ response' = [response EXCEPT ![w] = NoResponse]
    /\ UNCHANGED <<pc, req>>
    /\ IF get_cross_account_bucket(w) = NoAccount
       THEN /\ result' = [result EXCEPT ![w] = "NoSuchBucket"]
            /\ UNCHANGED bucket_tags
       ELSE /\ result' = [result EXCEPT ![w] = "ok"]
            /\ bucket_tags' = [bucket_tags EXCEPT ![get_cross_account_bucket(w)] = tagging]
    /\ UNCHANGED <<bucketVars, storeVars, genVars, listing, buckets, global_bucket_map,
                   lifecycle_rules, notification_configuration, object_lock_enabled,
                   expiration_cache, notified>>

\* the TagSet under the bucket's ARN, NoSuchTagSet when it is empty or absent
get_bucket_tagging(w) ==
    /\ pc[w] = "idle"
    /\ op' = [op EXCEPT ![w] = "get_bucket_tagging"]
    /\ UNCHANGED <<pc, req>>
    /\ IF get_cross_account_bucket(w) = NoAccount
       THEN /\ result' = [result EXCEPT ![w] = "NoSuchBucket"]
            /\ response' = [response EXCEPT ![w] = NoResponse]
       ELSE IF bucket_tags[get_cross_account_bucket(w)] = NoTag
       THEN /\ result' = [result EXCEPT ![w] = "NoSuchTagSet"]
            /\ response' = [response EXCEPT ![w] = NoResponse]
       ELSE /\ result' = [result EXCEPT ![w] = "ok"]
            /\ response' = [response EXCEPT ![w] = [NoResponse EXCEPT
                   !.tag_set = bucket_tags[get_cross_account_bucket(w)]]]
    /\ UNCHANGED <<bucketVars, storeVars, genVars, listing, configVars, expiration_cache,
                   notified>>

\* store.TAGS.tags.pop(s3_bucket.bucket_arn, None)
delete_bucket_tagging(w) ==
    /\ pc[w] = "idle"
    /\ op' = [op EXCEPT ![w] = "delete_bucket_tagging"]
    /\ response' = [response EXCEPT ![w] = NoResponse]
    /\ UNCHANGED <<pc, req>>
    /\ IF get_cross_account_bucket(w) = NoAccount
       THEN /\ result' = [result EXCEPT ![w] = "NoSuchBucket"]
            /\ UNCHANGED bucket_tags
       ELSE /\ result' = [result EXCEPT ![w] = "ok"]
            /\ bucket_tags' = [bucket_tags EXCEPT ![get_cross_account_bucket(w)] = NoTag]
    /\ UNCHANGED <<bucketVars, storeVars, genVars, listing, buckets, global_bucket_map,
                   lifecycle_rules, notification_configuration, object_lock_enabled,
                   expiration_cache, notified>>

\* buckets are created, tagged and deleted, one request at a time
NextBucketTags ==
    \E w \in Workers :
       /\ OthersIdle(w)
       /\ \/ \E bucket_region \in Regions : create_bucket_start(w, bucket_region)
          \/ create_bucket_store(w)
          \/ create_bucket_global(w)
          \/ delete_bucket_start(w)
          \/ delete_bucket_pop(w)
          \/ delete_bucket_global(w)
          \/ \E tagging \in Taggings : put_bucket_tagging(w, tagging)
          \/ get_bucket_tagging(w)
          \/ delete_bucket_tagging(w)

SpecBucketTags == Init /\ [][NextBucketTags]_vars

\* C36: a bucket that create_bucket has just created has no TagSet under its ARN, so that
\* get_bucket_tagging fails with NoSuchTagSet until put_bucket_tagging is called on it,
\* whatever an earlier bucket of the same name was tagged with before it was deleted
C36_NewBucketUntagged ==
    [][\A w \in Workers :
          /\ create_bucket_global(w) /\ result'[w] = "ok" => bucket_tags'[w] = NoTag
          /\ get_bucket_tagging(w) /\ get_cross_account_bucket(w) # NoAccount
                => (result'[w] = "NoSuchTagSet")
                      = (bucket_tags[get_cross_account_bucket(w)] = NoTag)]_vars

\* ------------------------------------- object tagging
\* the TagSet under the key id of the version the lookup returns; a delete marker the
\* lookup reports as NoSuchKey is answered with MethodNotAllowed on a versioned bucket
get_object_tagging(w, key, version_id) ==
    LET found == s3_bucket_get_object(objects, versioning_status, key, version_id, "GET")
        s3_object == ResolvedObject(objects, versioning_status, key, version_id)
    IN /\ pc[w] = "idle"
       /\ op' = [op EXCEPT ![w] = "get_object_tagging"]
       /\ UNCHANGED <<pc, req>>
       /\ IF get_cross_account_bucket(w) = NoAccount
          THEN /\ result' = [result EXCEPT ![w] = "NoSuchBucket"]
               /\ response' = [response EXCEPT ![w] = NoResponse]
          ELSE IF found = "NoSuchKey"
          THEN /\ result' = [result EXCEPT ![w] =
                     IF versioning_status # "unset" /\ HasCurrent(objects, key)
                     THEN "MethodNotAllowed" ELSE "NoSuchKey"]
               /\ response' = [response EXCEPT ![w] = NoResponse]
          ELSE IF found # "ok"
          THEN /\ result' = [result EXCEPT ![w] = found]
               /\ response' = [response EXCEPT ![w] = NoResponse]
          ELSE /\ result' = [result EXCEPT ![w] = "ok"]
               /\ response' = [response EXCEPT ![w] = [NoResponse EXCEPT
                      !.version_id = s3_object.version_id,
                      !.tag_set = tags[get_unique_key_id(key, s3_object.version_id)]]]
       /\ UNCHANGED <<bucketVars, storeVars, genVars, listing, configVars, expiration_cache,
                      notified>>

\* the entry popped is the one under the key id of the request's version_id
delete_object_tagging(w, key, version_id) ==
    LET found == s3_bucket_get_object(objects, versioning_status, key, version_id, "DELETE")
        s3_object == ResolvedObject(objects, versioning_status, key, version_id)
    IN /\ pc[w] = "idle"
       /\ op' = [op EXCEPT ![w] = "delete_object_tagging"]
       /\ UNCHANGED <<pc, req>>
       /\ IF get_cross_account_bucket(w) = NoAccount \/ found # "ok"
          THEN /\ result' = [result EXCEPT ![w] =
                     IF get_cross_account_bucket(w) = NoAccount THEN "NoSuchBucket" ELSE found]
               /\ response' = [response EXCEPT ![w] = NoResponse]
               /\ UNCHANGED <<tags, notified>>
          ELSE /\ result' = [result EXCEPT ![w] = "ok"]
               /\ tags' = [tags EXCEPT ![get_unique_key_id(key, version_id)] = NoTag]
               /\ response' = [response EXCEPT ![w] =
                     [NoResponse EXCEPT !.version_id = s3_object.version_id]]
               /\ notify(w, "delete_object_tagging",
                         <<Event("ObjectTagging:Delete", key, s3_object.version_id)>>)
       /\ UNCHANGED <<versioning_status, objects, multiparts, mp, storeVars, genVars, listing,
                      configVars, expiration_cache>>

\* objects are written, tagged, untagged and read back in every versioning state
NextObjectTags ==
    \/ \E key \in Keys : put_object_start(Client, key, <<>>, <<>>, NoTag)
    \/ put_object_check(Client)
    \/ put_object_write(Client, <<1>>, <<>>, NoChecksum)
    \/ put_object_tags(Client)
    \/ \E key \in Keys, version_id \in ReadVersionIds, tagging \in Taggings :
          put_object_tagging(Client, key, version_id, tagging)
    \/ \E key \in Keys, version_id \in ReadVersionIds : get_object_tagging(Client, key, version_id)
    \/ \E key \in Keys, version_id \in ReadVersionIds :
          delete_object_tagging(Client, key, version_id)
    \/ \E key \in Keys : delete_object(Client, key, NoVid)
    \/ \E status \in {"Enabled", "Suspended"} : put_bucket_versioning(Client, status)

SpecObjectTags == InitAnyVersioning /\ [][NextObjectTags]_vars

\* C37: once delete_object_tagging of a key and a version id (given or omitted) has
\* succeeded, the version that get_object_tagging resolves for the same key and version
\* id has an empty TagSet
C37_DeletedTagsAreGone ==
    [][\A key \in Keys, version_id \in ReadVersionIds :
          delete_object_tagging(Client, key, version_id) /\ result'[Client] = "ok"
             => tags'[get_unique_key_id(key,
                   ResolvedObject(objects', versioning_status', key, version_id).version_id)]
                   = NoTag]_vars

\* ------------------------------------- object retention
MaxRetainUntil == 3  \* RetainUntilDate of a request is one of 0..MaxRetainUntil
LockModes == {"GOVERNANCE", "COMPLIANCE"}
\* the request carries no Retention element
NoRetention == [Mode |-> "none", RetainUntilDate |-> NoTime]
Retentions ==
    {NoRetention} \cup [Mode : LockModes, RetainUntilDate : 0..MaxRetainUntil]

\* bypass_governance_retention and s3_object.lock_mode == ObjectLockMode.GOVERNANCE
bypass_governance(bypass_governance_retention, lock_mode) ==
    bypass_governance_retention /\ lock_mode = "GOVERNANCE"

put_object_retention(w, key, version_id, retention, bypass_governance_retention) ==
    LET found == s3_bucket_get_object(objects, versioning_status, key, version_id, "PUT")
        s3_object == ResolvedObject(objects, versioning_status, key, version_id)
    IN /\ pc[w] = "idle"
       /\ op' = [op EXCEPT ![w] = "put_object_retention"]
       /\ response' = [response EXCEPT ![w] = NoResponse]
       /\ UNCHANGED <<pc, req>>
       /\ IF get_cross_account_bucket(w) = NoAccount
          THEN result' = [result EXCEPT ![w] = "NoSuchBucket"] /\ UNCHANGED objects
          ELSE IF ~object_lock_enabled
          THEN result' = [result EXCEPT ![w] = "InvalidRequest"] /\ UNCHANGED objects
          ELSE IF found # "ok"
          THEN result' = [result EXCEPT ![w] = found] /\ UNCHANGED objects
          ELSE IF retention # NoRetention /\ retention.RetainUntilDate < clock
          THEN result' = [result EXCEPT ![w] = "InvalidArgument"] /\ UNCHANGED objects
          ELSE IF /\ \/ retention = NoRetention
                     \/ /\ s3_object.lock_until # NoTime
                        /\ s3_object.lock_until > retention.RetainUntilDate
                  /\ ~bypass_governance(bypass_governance_retention, s3_object.lock_mode)
          THEN result' = [result EXCEPT ![w] = "AccessDenied"] /\ UNCHANGED objects
          ELSE /\ result' = [result EXCEPT ![w] = "ok"]
               /\ objects' = [objects EXCEPT ![key] =
                     [i \in 1..Len(@) |->
                        IF @[i].version_id = s3_object.version_id
                        THEN [@[i] EXCEPT !.lock_mode = retention.Mode,
                                          !.lock_until = retention.RetainUntilDate]
                        ELSE @[i]]]
       /\ UNCHANGED <<versioning_status, tags, multiparts, mp, storeVars, genVars, listing,
                      configVars, expiration_cache, notified>>

\* object lock is turned on, versions are written and their retention is put, while
\* the clock runs
NextRetention ==
    \/ put_bucket_versioning(Client, "Enabled")
    \/ put_object_lock_configuration(Client)
    \/ \E key \in Keys : put_object_start(Client, key, <<>>, <<>>, NoTag)
    \/ put_object_check(Client)
    \/ put_object_write(Client, <<1>>, <<>>, NoChecksum)
    \/ put_object_tags(Client)
    \/ \E key \in Keys, version_id \in {NoVid, 1}, retention \in Retentions, bypass \in BOOLEAN :
          put_object_retention(Client, key, version_id, retention, bypass)
    \/ Tick

\* the date until which the version of the initial state is retained
RetainedUntil == MaxClock

\* the state a new bucket is in after put_bucket_versioning(Enabled),
\* put_object_lock_configuration, put_object of RaceKey (version 1) and
\* put_object_retention of that version with COMPLIANCE until RetainedUntil
InitRetention ==
    /\ versioning_status = "Enabled"
    /\ objects = [k \in Keys |->
          IF k = RaceKey
          THEN <<[S3Object(1, MD5Hex(<<1>>), 0) EXCEPT !.lock_mode = "COMPLIANCE",
                                                     !.lock_until = RetainedUntil]>>
          ELSE <<>>]
    /\ tags = [ck \in Keys \X Vids |-> NoTag]
    /\ multiparts = {}
    /\ mp = <<>>
    /\ storage = [ck \in Keys \X Vids |-> IF ck = <<RaceKey, 1>> THEN <<1>> ELSE NoBytes]
    /\ wlock = [ck \in Keys \X Vids |-> NoWorker]
    /\ staged = <<>>
    /\ nextVid = 2
    /\ clock = 0
    /\ pc = [w \in Workers |-> "idle"]
    /\ op = [w \in Workers |-> "none"]
    /\ result = [w \in Workers |-> "none"]
    /\ req = [w \in Workers |-> NoReq]
    /\ listing = NoListing
    /\ buckets = [a \in Accounts |-> IF a = 1 THEN "us-east-1" ELSE NoBucket]
    /\ global_bucket_map = 1
    /\ lifecycle_rules = NoRules
    /\ expiration_cache = [k \in Keys |-> NoHeader]
    /\ notification_configuration = FALSE
    /\ notified = NoNotification
    /\ response = [w \in Workers |-> NoResponse]
    /\ object_lock_enabled = TRUE
    /\ bucket_tags = [a \in Accounts |-> NoTag]

SpecRetention == InitRetention /\ [][NextRetention]_vars

\* C38: while the date of the COMPLIANCE retention of the version is still to come,
\* whatever put_object_retention calls have been made, with or without the bypass
\* header, the version has a retention and its date is not earlier than that date
C38_ComplianceRetentionStays ==
    clock < RetainedUntil =>
       /\ GetVersion(objects, RaceKey, 1).lock_mode # "none"
       /\ GetVersion(objects, RaceKey, 1).lock_until >= RetainedUntil

\* ------------------------------------- object lock and versioning
\* the versioning state and the Object Lock configuration of a bucket are put, the bucket
\* is written to, deleted and created again
NextLockVersioning ==
    \/ \E status \in {"Enabled", "Suspended"} : put_bucket_versioning(Client, status)
    \/ put_object_lock_configuration(Client)
    \/ \E key \in Keys : put_object_start(Client, key, <<>>, <<>>, NoTag)
    \/ put_object_check(Client)
    \/ put_object_write(Client, <<1>>, <<>>, NoChecksum)
    \/ put_object_tags(Client)
    \/ \E key \in Keys, status \in BOOLEAN : put_object_legal_hold(Client, key, NoVid, status)
    \/ \E key \in Keys : delete_object(Client, key, NullVid)
    \/ \E bucket_region \in Regions : create_bucket_start(Client, bucket_region)
    \/ create_bucket_store(Client)
    \/ create_bucket_global(Client)
    \/ delete_bucket_start(Client)
    \/ delete_bucket_pop(Client)
    \/ delete_bucket_global(Client)

SpecLockVersioning == Init /\ [][NextLockVersioning]_vars

NextExpiry ==
    \/ \E rules \in LifecycleInputs : put_bucket_lifecycle_configuration(Client, rules)
    \/ \E key \in Keys : put_object_start(Client, key, <<>>, <<>>, NoTag)
    \/ put_object_check(Client)
    \/ put_object_write(Client, <<1>>, <<>>, NoChecksum)
    \/ put_object_tags(Client)
    \/ \E key \in Keys : get_object_start(Client, key, NoVid, <<>>)
    \/ get_object_open(Client)
    \/ get_object_expiration(Client)
    \/ \E key \in Keys : head_object(Client, key, NoVid, <<>>)
    \/ \E key \in Keys : delete_object(Client, key, NoVid)
    \/ Tick

SpecExpiry == Init /\ [][NextExpiry]_vars

\* C40: the Expiration value a put_object, get_object or head_object has returned is the
\* one the bucket's lifecycle rules give the object now stored under the key
C40_ExpirationOfCurrentObject ==
    /\ pc[Client] = "idle"
    /\ op[Client] \in {"put_object", "get_object", "head_object"}
    /\ result[Client] = "ok"
    /\ lifecycle_rules # NoRules
    /\ HasCurrent(objects, RaceKey)
    => response[Client].expiration
          = serialize_expiration_header(lifecycle_rules,
                                        Current(objects, RaceKey).last_modified)

====
